---- MODULE Spec2Model ----
(***************************************************************************)
(* Sourcing decision engine of BOM Analyzer (src/app.py): the price-break  *)
(* cost optimizer get_optimal_cost, the risk model calculate_risk_score,   *)
(* the per-part evaluation analyze_single_part, the strategy engine        *)
(* calculate_strategies, and the token cache of search_nexar over the      *)
(* supplier fetches of one analysis run.                                   *)
(*                                                                         *)
(* Numbers.  A Python number is the record [k, v]: k = "num" is the finite *)
(* value v / Den (so non-integer quantities and prices exist), and the     *)
(* other kinds are float NaN, +inf, -inf, None and a non-numeric string.   *)
(* Arithmetic on finite values is exact; comparisons of products are done  *)
(* by cross-multiplication.                                                *)
(***************************************************************************)
EXTENDS Integers, Sequences, FiniteSets, TLC

VARIABLES
    cost_args,      \* arguments of the current get_optimal_cost call
    cost_ret,       \* what that call returned (or that it raised)
    cost_prev,      \* the previous call on the same pricing: <<qty_needed, ret>>
    cost_calls,     \* number of get_optimal_cost calls made
    risk_args,      \* arguments of the calculate_risk_score call
    risk_ret,       \* what that call returned (or that it raised)
    strat_args,     \* part_results and config given to calculate_strategies
    strat_ret,      \* the strategies the last call returned
    strat_prev,     \* the call before it: its arguments and what it returned
    strat_calls,    \* number of calculate_strategies calls made
    part_args,      \* arguments of analyze_single_part and what the fetch gives
    part_ret,       \* the part result it returned (or that it raised)
    nexar_clock,        \* time.time(), in seconds from the start of the run
    nexar_token_cache,  \* the dict nexar_token_cache of the run
    nexar_tasks,        \* the tasks submitted to the thread pool, by (row, supplier)
    nexar_run,          \* the loop over the BOM rows: where it stands, the row, the keys
    nexar_issued        \* number of tokens the identity server has issued

cost_vars == <<cost_args, cost_ret, cost_prev, cost_calls>>
risk_vars == <<risk_args, risk_ret>>
strat_vars == <<strat_args, strat_ret, strat_prev, strat_calls>>
part_vars == <<part_args, part_ret>>
nexar_vars == <<nexar_clock, nexar_token_cache, nexar_tasks, nexar_run, nexar_issued>>
vars == <<cost_vars, risk_vars, strat_vars, part_vars, nexar_vars>>

\* ---------------------------------------------------------------- bounds
Den       == 2      \* finite numbers are multiples of 1/Den
MaxQty    == 3      \* enumerated quantities are at most MaxQty
MaxBreaks == 3      \* enumerated price-break lists have at most MaxBreaks entries
MaxCalls  == 2      \* calls of get_optimal_cost on one pricing
MaxOpts   == 3      \* enumerated option lists have at most MaxOpts entries
MaxParts  == 2      \* enumerated lists of part results have at most MaxParts entries
MaxRuns   == 2      \* calls of calculate_strategies on one list
MaxBomParts == 2    \* rows of the BOM of one analysis run
MaxClock  == 90     \* seconds of the run that are followed

\* ------------------------------------------------------------- constants
ExpiryMargin     == 60      \* a token is reused while its expiry is more than 60 s away
DefaultExpiresIn == 3600    \* td.get("expires_in", 3600)
FetchTimeout     == 30      \* as_completed(tasks, timeout=30)

\* ------------------------------------------------------- Python numbers
NaN  == [k |-> "nan",  v |-> 0]
Inf  == [k |-> "inf",  v |-> 0]
NInf == [k |-> "ninf", v |-> 0]
None == [k |-> "none", v |-> 0]
Str  == [k |-> "str",  v |-> 0]
Frac(v) == [k |-> "num", v |-> v]
Num(n)  == [k |-> "num", v |-> n * Den]
NoCall  == [k |-> "nocall", v |-> 0]

Max(a, b) == IF a >= b THEN a ELSE b
Min(a, b) == IF a <= b THEN a ELSE b

\* isinstance(x, (int, float))
IsNumber(x) == x.k \in {"num", "nan", "inf", "ninf"}

\* pd.notna(x) for a float
notna(x) == x.k \notin {"nan", "none"}

\* int(x) of a finite number truncates toward zero; it raises on anything else
CanInt(x) == x.k = "num"
IntOf(x)  == IF x.v >= 0 THEN x.v \div Den ELSE -((-x.v) \div Den)

\* safe_float(value, default): None, +-inf and unparseable text give the
\* default; a float NaN stays NaN
safe_float(value, default) ==
    CASE value.k = "none" -> default
      [] value.k = "num"  -> value
      [] value.k = "nan"  -> NaN
      [] OTHER            -> default

\* ------------------------------------------------------ get_optimal_cost
\* A raw price break is [dict, qty, price]: dict says it is a dict with both
\* keys.  A validated break is [qty |-> int, price |-> v] with price v / Den.

\* the text of a note together with the number formatted into it
Note(text, n) == [text |-> text, n |-> n]

Sentinel(qty_needed, text) ==
    [raised |-> FALSE, unit_price |-> NaN, total_cost |-> NaN,
     actual_order_qty |-> qty_needed, notes |-> <<Note(text, 0)>>]

Raised(exc) ==
    [raised |-> TRUE, unit_price |-> NaN, total_cost |-> NaN,
     actual_order_qty |-> NaN, notes |-> <<Note(exc, 0)>>]

\* the filter of the list comprehension; int(pb['qty']) is only evaluated
\* for a dict with both keys
KeepBreak(pb) ==
    /\ pb.dict
    /\ IntOf(pb.qty) > 0
    /\ notna(safe_float(pb.price, NaN))
    /\ safe_float(pb.price, NaN).v >= 0

BreakRaises(pb) == pb.dict /\ ~CanInt(pb.qty)

RECURSIVE valid_breaks(_)
valid_breaks(pbs) ==
    IF pbs = <<>> THEN <<>>
    ELSE LET pb == Head(pbs)
         IN  (IF KeepBreak(pb)
              THEN <<[qty |-> IntOf(pb.qty), price |-> safe_float(pb.price, NaN).v]>>
              ELSE <<>>) \o valid_breaks(Tail(pbs))

\* sorted(valid_breaks, key=qty): stable, equal quantities keep their order
RECURSIVE InsertByQty(_, _)
InsertByQty(s, b) ==
    IF s = <<>> THEN <<b>>
    ELSE IF Head(s).qty <= b.qty THEN <<Head(s)>> \o InsertByQty(Tail(s), b)
    ELSE <<b>> \o s

RECURSIVE SortByQty(_)
SortByQty(s) ==
    IF s = <<>> THEN <<>>
    ELSE InsertByQty(SortByQty(SubSeq(s, 1, Len(s) - 1)), s[Len(s)])

\* max(1, int(safe_float(min_order_qty, default=1)))
MinOrderQty(moq) == Max(1, IntOf(safe_float(moq, Num(1))))

\* the loop that finds the applicable break: the last break of the leading
\* run of breaks with qty <= base_order_qty (0 when there is none)
RECURSIVE ApplicableFrom(_, _, _, _)
ApplicableFrom(pbs, base, i, found) ==
    IF i > Len(pbs) THEN found
    ELSE IF base >= pbs[i].qty THEN ApplicableFrom(pbs, base, i + 1, i)
    ELSE found

\* a variant that takes the lowest break whenever some break applies
ApplicableBreakLowest(pbs, base) == IF ApplicableFrom(pbs, base, 1, 0) > 0 THEN 1 ELSE 0

\* the index of the applicable break, 0 when the loop finds none
ApplicableBreak(pbs, base) == ApplicableFrom(pbs, base, 1, 0)

\* total < best * (1 - pct/100) and total <= best * (1 + pct/100), pct = p.v / Den
LowerTotal(total, best, pct) == total * 100 * Den < best * (100 * Den - pct.v)
SimilarTotal(total, best, pct) == total * 100 * Den <= best * (100 * Den + pct.v)

\* BuyUpStep with the two tests made on unit prices instead of total costs
BuyUpStepOnUnitPrice(st, pb, base, pct) ==
    IF pb.qty < base THEN st
    ELSE IF LowerTotal(pb.price, st.best_unit_price, pct)
            \/ (st.actual_order_qty < pb.qty
                /\ SimilarTotal(pb.price, st.best_unit_price, pct))
    THEN [best_total_cost |-> pb.qty * pb.price, best_unit_price |-> pb.price,
          actual_order_qty |-> pb.qty,
          notes |-> <<Note("Bought up for similar total cost", pb.qty)>>]
    ELSE st

\* BuyUpStep with the note of a replacement added to the notes so far
BuyUpStepKeepingNotes(st, pb, base, pct) ==
    LET total_cost_at_break == pb.qty * pb.price
    IN  IF pb.qty < base THEN st
        ELSE IF LowerTotal(total_cost_at_break, st.best_total_cost, pct)
        THEN [best_total_cost |-> total_cost_at_break, best_unit_price |-> pb.price,
              actual_order_qty |-> pb.qty,
              notes |-> Append(st.notes, Note("Price break lower total cost", pb.qty))]
        ELSE IF st.actual_order_qty < pb.qty
                /\ SimilarTotal(total_cost_at_break, st.best_total_cost, pct)
        THEN [best_total_cost |-> total_cost_at_break, best_unit_price |-> pb.price,
              actual_order_qty |-> pb.qty,
              notes |-> Append(st.notes, Note("Bought up for similar total cost", pb.qty))]
        ELSE st

\* one iteration of the buy-up loop on break pb; st is the running
\* [best_total_cost, best_unit_price, actual_order_qty, notes]
BuyUpStep(st, pb, base, pct) ==
    LET total_cost_at_break == pb.qty * pb.price
    IN  IF pb.qty < base THEN st
        ELSE IF LowerTotal(total_cost_at_break, st.best_total_cost, pct)
        THEN [best_total_cost |-> total_cost_at_break, best_unit_price |-> pb.price,
              actual_order_qty |-> pb.qty,
              notes |-> <<Note("Price break lower total cost", pb.qty)>>]
        ELSE IF st.actual_order_qty < pb.qty
                /\ SimilarTotal(total_cost_at_break, st.best_total_cost, pct)
        THEN [best_total_cost |-> total_cost_at_break, best_unit_price |-> pb.price,
              actual_order_qty |-> pb.qty,
              notes |-> <<Note("Bought up for similar total cost", pb.qty)>>]
        ELSE st

RECURSIVE BuyUpScan(_, _, _, _, _)
BuyUpScan(st, pbs, i, base, pct) ==
    IF i > Len(pbs) THEN st
    ELSE BuyUpScan(BuyUpStep(st, pbs[i], base, pct), pbs, i + 1, base, pct)

\* base_order_qty = max(int(qty_needed), min_order_qty)
BaseOrderQty(qty_needed, moq) == Max(IntOf(qty_needed), moq)

\* PriceAndBuyUp with the base total priced at the requested base quantity
\* also when the order is raised to the first break
PriceAndBuyUpAtRequestedQty(qty_needed, pbs, moq, pct) ==
    LET base0 == BaseOrderQty(qty_needed, moq)
        a     == ApplicableBreak(pbs, base0)
        ab    == IF a > 0 THEN pbs[a] ELSE pbs[1]
        base  == IF a > 0 THEN base0 ELSE Max(base0, ab.qty)
        notes == IF a > 0 THEN <<>> ELSE <<Note("MOQ adjusted to first break", base)>>
        st0   == [best_total_cost |-> ab.price * base0, best_unit_price |-> ab.price,
                  actual_order_qty |-> base, notes |-> notes]
        st    == BuyUpScan(st0, pbs, 1, base, pct)
    IN  [raised |-> FALSE, unit_price |-> Frac(st.best_unit_price),
         total_cost |-> Frac(st.best_total_cost),
         actual_order_qty |-> Num(st.actual_order_qty), notes |-> st.notes]

\* lines 119-159, reached with validated sorted breaks and a finite qty_needed
PriceAndBuyUp(qty_needed, pbs, moq, pct) ==
    LET base0 == BaseOrderQty(qty_needed, moq)
        a     == ApplicableBreak(pbs, base0)
        ab    == IF a > 0 THEN pbs[a] ELSE pbs[1]
        base  == IF a > 0 THEN base0 ELSE Max(base0, ab.qty)
        notes == IF a > 0 THEN <<>> ELSE <<Note("MOQ adjusted to first break", base)>>
        st0   == [best_total_cost |-> ab.price * base, best_unit_price |-> ab.price,
                  actual_order_qty |-> base, notes |-> notes]
        st    == BuyUpScan(st0, pbs, 1, base, pct)
    IN  [raised |-> FALSE, unit_price |-> Frac(st.best_unit_price),
         total_cost |-> Frac(st.best_total_cost),
         actual_order_qty |-> Num(st.actual_order_qty), notes |-> st.notes]

get_optimal_cost(qty_needed, pricing_breaks, min_order_qty, buy_up_threshold_pct) ==
    IF ~IsNumber(qty_needed) \/ (qty_needed.k = "num" /\ qty_needed.v <= 0)
       \/ qty_needed.k = "ninf"
    THEN Sentinel(qty_needed, "Invalid Qty Needed")
    ELSE IF ~pricing_breaks.list
    THEN Sentinel(qty_needed, "Invalid Pricing Data")
    ELSE IF \E i \in 1..Len(pricing_breaks.items) : BreakRaises(pricing_breaks.items[i])
    THEN Sentinel(qty_needed, "Pricing Data Error")
    ELSE IF valid_breaks(pricing_breaks.items) = <<>>
    THEN Sentinel(qty_needed, "No Valid Price Breaks")
    ELSE IF ~CanInt(safe_float(min_order_qty, Num(1)))
    THEN Sentinel(qty_needed, "Pricing Data Error")
    ELSE IF qty_needed.k = "nan" THEN Raised("ValueError")
    ELSE IF qty_needed.k = "inf" THEN Raised("OverflowError")
    ELSE PriceAndBuyUp(qty_needed, SortByQty(valid_breaks(pricing_breaks.items)),
                       MinOrderQty(min_order_qty), buy_up_threshold_pct)


\* ------------------------------------------- inputs of get_optimal_cost
SeqsUpTo(S, n) == UNION {[1..m -> S] : m \in 0..n}

List(items) == [list |-> TRUE, items |-> items]
NotAList    == [list |-> FALSE, items |-> <<>>]
Break(q, p) == [dict |-> TRUE, qty |-> q, price |-> p]
NotADict    == [dict |-> FALSE, qty |-> None, price |-> None]

\* well-formed breaks: whole quantity 1..MaxQty, price 2 or 3
GoodBreaks == {Break(Num(q), Num(p)) : q \in 1..MaxQty, p \in {2, 3}}

\* anything a supplier record may carry in its price list: zero, whole and
\* fractional quantities, text for a quantity, zero, negative and NaN prices
RawBreaks ==
    {Break(q, p) : q \in {Num(0), Num(1), Frac(Den + 1), Str},
                   p \in {Num(0), Num(2), Frac(-1), NaN}}
    \cup {NotADict}

\* the price list of the documented buy-up example
ExampleBreaks == <<Break(Num(1), Num(10)), Break(Num(100), Num(9)), Break(Num(1000), Num(5))>>

QtyInputs ==
    {Frac(v) : v \in (-Den)..(MaxQty * Den)} \cup {Num(50), NaN, Inf, NInf, None, Str}

RawPricing  == {List(s) : s \in SeqsUpTo(RawBreaks, 2)} \cup {NotAList}
GoodPricing == {List(s) : s \in SeqsUpTo(GoodBreaks, MaxBreaks)}

MoqInputs == {None, NaN, Num(0), Num(1), Num(MaxQty)}
PctInputs == {Num(0), Num(1), Num(50)}

CostArgs(q, pbs, moq, pct) ==
    [qty_needed |-> q, pricing_breaks |-> pbs, min_order_qty |-> moq,
     buy_up_threshold_pct |-> pct]

CallCost(a) ==
    get_optimal_cost(a.qty_needed, a.pricing_breaks, a.min_order_qty,
                     a.buy_up_threshold_pct)

\* the functions a specification does not exercise are never called in it
CostIdle == cost_args = NoCall /\ cost_ret = NoCall /\ cost_prev = NoCall /\ cost_calls = 0
RiskIdle == risk_args = NoCall /\ risk_ret = NoCall
StratIdle == strat_args = NoCall /\ strat_ret = NoCall /\ strat_prev = NoCall /\ strat_calls = 0
PartIdle == part_args = NoCall /\ part_ret = NoCall
NexarIdle ==
    /\ nexar_clock = 0 /\ nexar_issued = 0
    /\ nexar_token_cache = NoCall /\ nexar_tasks = NoCall /\ nexar_run = NoCall

\* ------------------------------------------------------------- SpecCost
\* one call of get_optimal_cost on arbitrary arguments
ExampleArgs == CostArgs(Num(50), List(ExampleBreaks), Num(1), Num(1))

InitCost ==
    /\ \/ \E q \in QtyInputs, pbs \in RawPricing, moq \in MoqInputs, pct \in PctInputs :
              cost_args = CostArgs(q, pbs, moq, pct)
       \/ \E v \in 1..(MaxQty * Den), pbs \in GoodPricing, pct \in PctInputs :
              cost_args = CostArgs(Frac(v), pbs, Num(1), pct)
       \/ cost_args = ExampleArgs
    /\ cost_ret = NoCall
    /\ cost_prev = NoCall
    /\ cost_calls = 0
    /\ RiskIdle /\ StratIdle /\ PartIdle /\ NexarIdle

GetOptimalCost ==
    /\ cost_calls = 0
    /\ cost_ret' = CallCost(cost_args)
    /\ cost_calls' = 1
    /\ UNCHANGED <<cost_args, cost_prev, risk_vars, strat_vars, part_vars, nexar_vars>>

NextCost == GetOptimalCost

SpecCost == InitCost /\ [][NextCost]_vars

\* ------------------------------------------------------- SpecCostRepeat
\* repeated calls with the pricing, MOQ and threshold held fixed and only
\* qty_needed changing
InitCostRepeat ==
    /\ \E v \in 1..(MaxQty * Den), pbs \in GoodPricing,
           moq \in {Num(1), Num(2)}, pct \in PctInputs :
              cost_args = CostArgs(Frac(v), pbs, moq, pct)
    /\ cost_ret = NoCall
    /\ cost_prev = NoCall
    /\ cost_calls = 0
    /\ RiskIdle /\ StratIdle /\ PartIdle /\ NexarIdle

GetOptimalCostAgain(q) ==
    /\ cost_calls \in 1..(MaxCalls - 1)
    /\ cost_prev' = [qty_needed |-> cost_args.qty_needed, ret |-> cost_ret]
    /\ cost_args' = [cost_args EXCEPT !.qty_needed = q]
    /\ cost_ret' = CallCost(cost_args')
    /\ cost_calls' = cost_calls + 1
    /\ UNCHANGED <<risk_vars, strat_vars, part_vars, nexar_vars>>

NextCostRepeat ==
    \/ GetOptimalCost
    \/ \E v \in 1..(MaxQty * Den) : GetOptimalCostAgain(Frac(v))

SpecCostRepeat == InitCostRepeat /\ [][NextCostRepeat]_vars

\* -------------------------------------------------------------- strings
\* A string is the sequence of its characters.
UpperCase == <<"A", "B", "C", "D", "E", "F", "G", "H", "I", "J", "K", "L", "M", "N", "O", "P", "Q", "R", "S", "T", "U", "V", "W", "X", "Y", "Z">>
LowerCase == <<"a", "b", "c", "d", "e", "f", "g", "h", "i", "j", "k", "l", "m", "n", "o", "p", "q", "r", "s", "t", "u", "v", "w", "x", "y", "z">>

lower(c) == IF \E i \in 1..Len(UpperCase) : UpperCase[i] = c
            THEN LowerCase[CHOOSE i \in 1..Len(UpperCase) : UpperCase[i] = c] ELSE c
upper(c) == IF \E i \in 1..Len(LowerCase) : LowerCase[i] = c
            THEN UpperCase[CHOOSE i \in 1..Len(LowerCase) : LowerCase[i] = c] ELSE c

StrLower(s) == [i \in 1..Len(s) |-> lower(s[i])]
StrUpper(s) == [i \in 1..Len(s) |-> upper(s[i])]

\* needle in hay
Contains(hay, needle) ==
    \E i \in 0..(Len(hay) - Len(needle)) : SubSeq(hay, i + 1, i + Len(needle)) = needle

\* str.strip()
RECURSIVE LStrip(_)
LStrip(s) == IF s # <<>> /\ Head(s) = " " THEN LStrip(Tail(s)) ELSE s
RECURSIVE RStrip(_)
RStrip(s) == IF s # <<>> /\ s[Len(s)] = " " THEN RStrip(SubSeq(s, 1, Len(s) - 1)) ELSE s
Strip(s) == RStrip(LStrip(s))

\* ------------------------------------------------------- float (double)
\* The weighted sum of the risk score is float arithmetic, and round() acts
\* on the double it produces.  A non-negative double is held exactly as a
\* natural number of units 2^-FixPoint, written in NumLimbs limbs of LimbBits
\* bits, least significant first.  Every product and sum is computed exactly
\* and then rounded to a 53-bit significand, ties to even, as IEEE 754 does.
FixPoint    == 56
LimbBits    == 16
NumLimbs    == 4
Significand == 53

Base == 2^LimbBits

\* the small natural number n, and 2^p
FromNat(n) == [i \in 1..NumLimbs |-> IF i = 1 THEN n ELSE 0]
Pow2(p)    == [i \in 1..NumLimbs |-> IF i = p \div LimbBits + 1 THEN 2^(p % LimbBits) ELSE 0]

\* bit p of a, bit 0 the least significant
BitOf(a, p) ==
    IF p \div LimbBits + 1 > NumLimbs THEN 0
    ELSE (a[p \div LimbBits + 1] \div 2^(p % LimbBits)) % 2

RECURSIVE AddFrom(_, _, _, _)
AddFrom(a, b, i, carry) ==
    IF i > NumLimbs THEN <<>>
    ELSE LET t == a[i] + b[i] + carry
         IN  <<t % Base>> \o AddFrom(a, b, i + 1, t \div Base)

Add(a, b) == AddFrom(a, b, 1, 0)

\* a * k for a small natural k
RECURSIVE MulFrom(_, _, _, _)
MulFrom(a, k, i, carry) ==
    IF i > NumLimbs THEN <<>>
    ELSE LET t == a[i] * k + carry
         IN  <<t % Base>> \o MulFrom(a, k, i + 1, t \div Base)

Mul(a, k) == MulFrom(a, k, 1, 0)

\* the number written by the hexadecimal digits h, most significant first
\* (the values of the prefixes of h of length 0, 1, ..., i)
RECURSIVE HexPrefixes(_, _)
HexPrefixes(h, i) ==
    IF i = 0 THEN <<FromNat(0)>>
    ELSE LET prev == HexPrefixes(h, i - 1)
         IN  Append(prev, Add(Mul(prev[i], 16), FromNat(h[i])))

FromHex(h) == HexPrefixes(h, Len(h))[Len(h) + 1]

\* the number of significant bits of a
BitLen(a) ==
    LET S == {p \in 0..(NumLimbs * LimbBits - 1) : BitOf(a, p) = 1}
    IN  IF S = {} THEN 0 ELSE 1 + CHOOSE p \in S : \A q \in S : q <= p

\* a > b
RECURSIVE GreaterFrom(_, _, _)
GreaterFrom(a, b, i) ==
    IF i = 0 THEN FALSE
    ELSE IF a[i] # b[i] THEN a[i] > b[i]
    ELSE GreaterFrom(a, b, i - 1)
Greater(a, b) == GreaterFrom(a, b, NumLimbs)

\* a with its d least significant bits cleared
ClearLow(a, d) ==
    [i \in 1..NumLimbs |->
        IF i * LimbBits <= d THEN 0
        ELSE IF (i - 1) * LimbBits >= d THEN a[i]
        ELSE (a[i] \div 2^(d % LimbBits)) * 2^(d % LimbBits)]

\* the double nearest to the exact value a, ties to even
RoundToDouble(a) ==
    LET d == BitLen(a) - Significand
    IN  IF d <= 0 THEN a
        ELSE LET sticky == \E p \in 0..(d - 2) : BitOf(a, p) = 1
                 up     == BitOf(a, d - 1) = 1 /\ (sticky \/ BitOf(a, d) = 1)
             IN  IF up THEN Add(ClearLow(a, d), Pow2(d)) ELSE Add(ClearLow(a, d), FromNat(0))

FloatMul(a, k) == RoundToDouble(Mul(a, k))
FloatAdd(a, b) == RoundToDouble(Add(a, b))

\* the integer part of a; it is small
RECURSIVE IntPartFrom(_, _)
IntPartFrom(a, p) ==
    IF p >= NumLimbs * LimbBits THEN 0 ELSE BitOf(a, p) + 2 * IntPartFrom(a, p + 1)
IntPart(a) == IntPartFrom(a, FixPoint)

\* round(x, 1), in tenths: the decimal with one digit nearest to the exact
\* value of the double x, an exact tie going to the even digit
Round1(x) ==
    LET t      == Mul(x, 10)
        ip     == IntPart(t)
        sticky == \E p \in 0..(FixPoint - 2) : BitOf(t, p) = 1
        up     == BitOf(t, FixPoint - 1) = 1 /\ (sticky \/ ip % 2 = 1)
    IN  IF up THEN ip + 1 ELSE ip

\* the double 1.0
One == Pow2(FixPoint)

\* the bits taken at a time when a product or a quotient is built, no more
\* than the width of the integer part, and the number of such chunks in the
\* fraction; the topmost chunk of the fraction has TopBits bits
Guard     == Min(NumLimbs * LimbBits - FixPoint, LimbBits \div 2)
NumChunks == (FixPoint + Guard - 1) \div Guard
TopBits   == FixPoint - Guard * (NumChunks - 1)

\* a \div 2^k for k <= LimbBits
ShiftRight(a, k) ==
    [i \in 1..NumLimbs |->
        a[i] \div 2^k + (IF i < NumLimbs THEN (a[i + 1] % 2^k) * 2^(LimbBits - k) ELSE 0)]

\* the n bits of a from bit p upwards, as a number
RECURSIVE BitsFrom(_, _, _)
BitsFrom(a, p, n) == IF n = 0 THEN 0 ELSE BitOf(a, p) + 2 * BitsFrom(a, p + 1, n - 1)

\* RoundToDouble of a value that lies strictly between a and a + 1 when
\* sticky is true, and is a otherwise
RoundSticky(a, sticky) ==
    LET d == BitLen(a) - Significand
    IN  IF d <= 0 THEN a
        ELSE LET st == sticky \/ \E p \in 0..(d - 2) : BitOf(a, p) = 1
                 up == BitOf(a, d - 1) = 1 /\ (st \/ BitOf(a, d) = 1)
             IN  IF up THEN Add(ClearLow(a, d), Pow2(d)) ELSE Add(ClearLow(a, d), FromNat(0))

\* the exact product w * q of two doubles below 1.0, chunk after chunk of q
\* from the least significant: after chunk j the product of w and the chunks
\* 0..j, in units 2^-(FixPoint + Guard * j) and cut below the unit, with
\* whether anything was cut
RECURSIVE TimesPartials(_, _, _)
TimesPartials(w, q, j) ==
    IF j = 0 THEN <<[acc |-> Mul(w, BitsFrom(q, 0, Guard)), cut |-> FALSE]>>
    ELSE LET prev == TimesPartials(w, q, j - 1)
         IN  Append(prev,
                 [acc |-> Add(ShiftRight(prev[j].acc, Guard), Mul(w, BitsFrom(q, Guard * j, Guard))),
                  cut |-> prev[j].cut \/ BitsFrom(prev[j].acc, 0, Guard) # 0])

\* w * q on doubles in [0, 1]: the exact product rounded to a double
FloatTimes(w, q) ==
    IF w = FromNat(0) \/ q = FromNat(0) THEN FromNat(0)
    ELSE IF q = One THEN w
    ELSE IF w = One THEN q
    ELSE LET last == TimesPartials(w, q, NumChunks - 1)[NumChunks]
         IN  ShiftRight(RoundSticky(last.acc, last.cut), TopBits)

\* the quotient x / r of naturals 0 < x < r, chunk after chunk from the most
\* significant: the quotient in units 2^-(TopBits + Guard * j) cut below the
\* unit, and the remainder
RECURSIVE QuotientPartials(_, _, _)
QuotientPartials(x, r, j) ==
    IF j = 0 THEN <<[acc |-> FromNat((x * 2^TopBits) \div r), rem |-> (x * 2^TopBits) % r]>>
    ELSE LET prev == QuotientPartials(x, r, j - 1)
         IN  Append(prev,
                 [acc |-> Add(Mul(prev[j].acc, 2^Guard), FromNat((prev[j].rem * 2^Guard) \div r)),
                  rem |-> (prev[j].rem * 2^Guard) % r])

\* x / r on naturals 0 <= x <= r, r > 0: the double nearest to the quotient,
\* which is also the double a decimal literal x/r denotes
FloatQuotient(x, r) ==
    IF x = 0 THEN FromNat(0)
    ELSE IF x = r THEN One
    ELSE LET last == QuotientPartials(x, r, NumChunks)[NumChunks + 1]
         IN  ShiftRight(RoundSticky(last.acc, last.rem # 0), Guard)

\* ------------------------------------------------- calculate_risk_score
\* RISK_WEIGHTS: the doubles the literals 0.30, 0.15 and 0.10 denote,
\* 0x1.3333333333333p-2, 0x1.3333333333333p-3 and 0x1.999999999999ap-4
Weight030 == Mul(FromHex(<<1, 3, 3, 3, 3, 3, 3, 3, 3, 3, 3, 3, 3, 3>>), 2^(FixPoint - 54))
Weight015 == Mul(FromHex(<<1, 3, 3, 3, 3, 3, 3, 3, 3, 3, 3, 3, 3, 3>>), 2^(FixPoint - 55))
Weight010 == Mul(FromHex(<<1, 9, 9, 9, 9, 9, 9, 9, 9, 9, 9, 9, 9, 10>>), 2^(FixPoint - 56))

\* in the order in which the dict is iterated
RISK_WEIGHTS ==
    <<[f |-> "Sourcing", w |-> Weight030], [f |-> "Stock", w |-> Weight015],
      [f |-> "LeadTime", w |-> Weight015], [f |-> "Lifecycle", w |-> Weight030],
      [f |-> "Geographic", w |-> Weight010]>>

\* in declaration order, which is the order in which the dict is iterated
GEO_RISK_TIERS == <<
    [country |-> <<"C", "h", "i", "n", "a">>, score |-> 7],
    [country |-> <<"R", "u", "s", "s", "i", "a">>, score |-> 9],
    [country |-> <<"T", "a", "i", "w", "a", "n">>, score |-> 5],
    [country |-> <<"M", "a", "l", "a", "y", "s", "i", "a">>, score |-> 4],
    [country |-> <<"V", "i", "e", "t", "n", "a", "m">>, score |-> 4],
    [country |-> <<"I", "n", "d", "i", "a">>, score |-> 5],
    [country |-> <<"P", "h", "i", "l", "i", "p", "p", "i", "n", "e", "s">>, score |-> 4],
    [country |-> <<"T", "h", "a", "i", "l", "a", "n", "d">>, score |-> 4],
    [country |-> <<"S", "o", "u", "t", "h", " ", "K", "o", "r", "e", "a">>, score |-> 3],
    [country |-> <<"U", "S", "A">>, score |-> 1],
    [country |-> <<"U", "n", "i", "t", "e", "d", " ", "S", "t", "a", "t", "e", "s">>, score |-> 1],
    [country |-> <<"M", "e", "x", "i", "c", "o">>, score |-> 2],
    [country |-> <<"C", "a", "n", "a", "d", "a">>, score |-> 1],
    [country |-> <<"J", "a", "p", "a", "n">>, score |-> 1],
    [country |-> <<"G", "e", "r", "m", "a", "n", "y">>, score |-> 1],
    [country |-> <<"F", "r", "a", "n", "c", "e">>, score |-> 1],
    [country |-> <<"U", "K">>, score |-> 1],
    [country |-> <<"I", "r", "e", "l", "a", "n", "d">>, score |-> 1],
    [country |-> <<"S", "w", "i", "t", "z", "e", "r", "l", "a", "n", "d">>, score |-> 1],
    [country |-> <<"E", "U">>, score |-> 1],
    [country |-> <<"U", "n", "k", "n", "o", "w", "n">>, score |-> 4],
    [country |-> <<"N", "/", "A">>, score |-> 4],
    [country |-> <<"_", "D", "E", "F", "A", "U", "L", "T", "_">>, score |-> 4] >>

SourcingRisk(sourcing_count) ==
    CASE sourcing_count = 0 -> 10
      [] sourcing_count = 1 -> 7
      [] sourcing_count = 2 -> 4
      [] OTHER              -> 0

\* stock_available < 1.5 * qty_needed is 2 * stock_available < 3 * qty_needed
StockRisk(stock_available, qty_needed) ==
    IF stock_available < qty_needed THEN 8
    ELSE IF 2 * stock_available < 3 * qty_needed THEN 4
    ELSE 0

\* a variant that tests only for NaN and infinity, not for None
LeadTimeUnknownNaNOnly(lt) == lt.k = "nan" \/ lt.k = "inf"

\* pd.isna(lt) or lt == np.inf
LeadTimeUnknown(lt) == lt.k \in {"nan", "none"} \/ lt.k = "inf"

\* the comparisons lt == 0, lt > 90, lt > 45 raise TypeError on text
LeadTimeRaises(lt) == ~LeadTimeUnknown(lt) /\ lt.k \in {"none", "str"}

LeadTimeRisk(lt) ==
    IF LeadTimeUnknown(lt) THEN 9
    ELSE IF lt.k = "ninf" THEN 1
    ELSE IF lt.v = 0 THEN 0
    ELSE IF lt.v > 90 * Den THEN 7
    ELSE IF lt.v > 45 * Den THEN 4
    ELSE 1

LifecycleRisk(lifecycle_notes) ==
    LET lc == StrUpper(lifecycle_notes)
    IN  IF Contains(lc, <<"E", "O", "L">>) \/ Contains(lc, <<"D", "I", "S", "C">>)
        THEN 10 ELSE 0

\* GEO_RISK_TIERS.get(key, default)
GeoGet(key, default) ==
    IF \E i \in 1..Len(GEO_RISK_TIERS) : GEO_RISK_TIERS[i].country = key
    THEN GEO_RISK_TIERS[CHOOSE i \in 1..Len(GEO_RISK_TIERS) : GEO_RISK_TIERS[i].country = key].score
    ELSE default

\* the positions of the countries whose lower-cased name occurs in coo_lower
GeoMatches(coo_lower) ==
    {i \in 1..Len(GEO_RISK_TIERS) : Contains(coo_lower, StrLower(GEO_RISK_TIERS[i].country))}

\* a variant in which the last matching entry decides
GeographicRiskLastMatch(coo) ==
    LET m == GeoMatches(StrLower(Strip(coo)))
    IN  IF m = {} THEN GeoGet(<<"_", "D", "E", "F", "A", "U", "L", "T", "_">>, 4)
        ELSE GEO_RISK_TIERS[CHOOSE i \in m : \A j \in m : i >= j].score

\* the loop over GEO_RISK_TIERS.items() stops at the first match
GeographicRisk(coo) ==
    LET m == GeoMatches(StrLower(Strip(coo)))
    IN  IF m = {} THEN GeoGet(<<"_", "D", "E", "F", "A", "U", "L", "T", "_">>, 4)
        ELSE GEO_RISK_TIERS[CHOOSE i \in m : \A j \in m : i <= j].score

\* sum(risk_factors[f] * RISK_WEIGHTS[f] for f in RISK_WEIGHTS): the running
\* totals after 0, 1, ..., i terms, added left to right
RECURSIVE RunningTotals(_, _)
RunningTotals(risk_factors, i) ==
    IF i = 0 THEN <<FromNat(0)>>
    ELSE LET prev == RunningTotals(risk_factors, i - 1)
         IN  Append(prev, FloatAdd(prev[i],
                 FloatMul(RISK_WEIGHTS[i].w, risk_factors[RISK_WEIGHTS[i].f])))

WeightedSum(risk_factors) ==
    RunningTotals(risk_factors, Len(RISK_WEIGHTS))[Len(RISK_WEIGHTS) + 1]

\* round(max(0.0, min(10.0, overall)), 1) in tenths
Overall10(overall) ==
    LET ten == Mul(Pow2(FixPoint), 10)
    IN  Round1(IF Greater(overall, ten) THEN ten ELSE overall)

calculate_risk_score(sourcing_count, stock_available, qty_needed, lead_time_days, lifecycle_notes, coo) ==
    IF LeadTimeRaises(lead_time_days)
    THEN [raised |-> TRUE, risk_factors |-> <<>>, overall10 |-> 0]
    ELSE LET risk_factors ==
                 [Sourcing   |-> SourcingRisk(sourcing_count),
                  Stock      |-> StockRisk(stock_available, qty_needed),
                  LeadTime   |-> LeadTimeRisk(lead_time_days),
                  Lifecycle  |-> LifecycleRisk(lifecycle_notes),
                  Geographic |-> GeographicRisk(coo)]
         IN  [raised |-> FALSE, risk_factors |-> risk_factors,
              overall10 |-> Overall10(WeightedSum(risk_factors))]

\* ------------------------------------------------------------- SpecRisk
\* one call of calculate_risk_score
LeadTimeInputs ==
    {None, NaN, Inf, NInf, Str, Num(0), Frac(1), Num(45), Num(46), Num(90), Num(91)}

LifecycleInputs == {<<>>, <<"E", "O", "L">>, <<"d", "i", "s", "c">>, <<"A", "c", "t", "i", "v", "e">>, <<"D", "i", "s", "c", "o", "n", "t", "i", "n", "u", "e", "d">>}

CooInputs == {<<>>, <<"C", "h", "i", "n", "a">>, <<"U", "n", "k", "n", "o", "w", "n">>, <<" ", "M", "e", "x", "i", "c", "o", " ">>, <<"T", "a", "i", "w", "a", "n", ",", " ", "C", "h", "i", "n", "a">>, <<"U", "K", "R", "A", "I", "N", "E">>, <<"B", "r", "a", "z", "i", "l">>}

RiskArgs(n, stock, qty, lt, lc, coo) ==
    [sourcing_count |-> n, stock_available |-> stock, qty_needed |-> qty,
     lead_time_days |-> lt, lifecycle_notes |-> lc, coo |-> coo]

\* the documented risk example
RiskExampleArgs == RiskArgs(0, 0, 10, None, <<"E", "O", "L">>, <<"C", "h", "i", "n", "a">>)

CallRisk(a) ==
    calculate_risk_score(a.sourcing_count, a.stock_available, a.qty_needed,
                         a.lead_time_days, a.lifecycle_notes, a.coo)

InitRisk ==
    /\ \/ \E n \in 0..3, stock \in 0..MaxQty, qty \in {0, 2},
             lt \in LeadTimeInputs, lc \in LifecycleInputs, coo \in CooInputs :
                risk_args = RiskArgs(n, stock, qty, lt, lc, coo)
       \/ risk_args = RiskExampleArgs
    /\ risk_ret = NoCall
    /\ CostIdle /\ StratIdle /\ PartIdle /\ NexarIdle

CalculateRiskScore ==
    /\ risk_ret = NoCall
    /\ risk_ret' = CallRisk(risk_args)
    /\ UNCHANGED <<risk_args, cost_vars, strat_vars, part_vars, nexar_vars>>

NextRisk == CalculateRiskScore

SpecRisk == InitRisk /\ [][NextRisk]_vars

\* ------------------------------------------------- calculate_strategies
\* An option is [cost, stock, lead_time, eol, discontinued], a part result
\* [PartNumber, _valid, QtyNeed, _options], and config holds
\* target_lead_time_days, max_premium (percent) and the two weights, in
\* hundredths.  A strategy summary is [total_cost, max_lt, parts, invalid],
\* parts being the dict from part number to the chosen option.
Option(cost, stock, lead_time, eol, discontinued) ==
    [cost |-> cost, stock |-> stock, lead_time |-> lead_time,
     eol |-> eol, discontinued |-> discontinued]

PartResult(pn, valid, qty, opts) ==
    [PartNumber |-> pn, _valid |-> valid, QtyNeed |-> qty, _options |-> opts]

Config(target, premium, cw, lw) ==
    [target_lead_time_days |-> target, max_premium |-> premium,
     cost_weight |-> cw, lead_time_weight |-> lw]

\* a < b on floats: false when either side is NaN
FloatLess(a, b) ==
    IF a.k = "nan" \/ b.k = "nan" THEN FALSE
    ELSE IF a.k = "num" /\ b.k = "num" THEN a.v < b.v
    ELSE IF a.k = b.k THEN FALSE
    ELSE a.k = "ninf" \/ b.k = "inf"

STRICT    == "Lowest Cost (Strict)"
IN_STOCK  == "Lowest Cost (In Stock)"
FASTEST   == "Fastest Lead Time"
OPTIMIZED == "Optimized (Cost+LT)"
StrategyNames == {STRICT, IN_STOCK, FASTEST, OPTIMIZED}

EmptyDict == [x \in {} |-> x]

\* a variant in which the dict of the previous call is used again
CarriedStrategies ==
    IF strat_ret = NoCall
    THEN [s \in StrategyNames |->
            [total_cost |-> Num(0), max_lt |-> 0, parts |-> EmptyDict, invalid |-> FALSE]]
    ELSE strat_ret

\* the dict built at the start of every call
FreshStrategies ==
    [s \in StrategyNames |->
        [total_cost |-> Num(0), max_lt |-> 0, parts |-> EmptyDict, invalid |-> FALSE]]

\* [o for o in opts if pd.notna(o.get("cost")) and o.get("cost", np.inf) != np.inf]
HasCost(o) == notna(o.cost) /\ o.cost.k # "inf"
valid_opts(opts) == SelectSeq(opts, HasCost)

\* min(opts, key=cost): the scan keeps the first option unless a later one
\* has a strictly smaller cost
RECURSIVE MinCostFrom(_, _, _)
MinCostFrom(opts, i, best) ==
    IF i > Len(opts) THEN best
    ELSE IF FloatLess(opts[i].cost, best.cost) THEN MinCostFrom(opts, i + 1, opts[i])
    ELSE MinCostFrom(opts, i + 1, best)

\* a variant that takes the first option whatever its cost
MinCostFirstListed(opts) == opts[1]

MinCost(opts) == MinCostFrom(opts, 2, opts[1])

InStock(o, qty_needed) == o.stock >= qty_needed

eff_lt(o, qty_needed) == IF InStock(o, qty_needed) THEN Num(0) ELSE o.lead_time

\* (eff_lt(a), cost(a)) < (eff_lt(b), cost(b)) as tuples
FastestKeyLess(a, b, qty_needed) ==
    IF eff_lt(a, qty_needed) # eff_lt(b, qty_needed)
    THEN FloatLess(eff_lt(a, qty_needed), eff_lt(b, qty_needed))
    ELSE FloatLess(a.cost, b.cost)

RECURSIVE FastestFrom(_, _, _, _)
FastestFrom(opts, i, best, qty_needed) ==
    IF i > Len(opts) THEN best
    ELSE IF FastestKeyLess(opts[i], best, qty_needed)
    THEN FastestFrom(opts, i + 1, opts[i], qty_needed)
    ELSE FastestFrom(opts, i + 1, best, qty_needed)

\* a variant that takes the lowest-cost option
FastestLowestCost(opts, qty_needed) == MinCost(opts)

\* fastest = min(valid_opts, key=lambda o: (eff_lt(o), cost))
Fastest(opts, qty_needed) == FastestFrom(opts, 2, opts[1], qty_needed)

\* if not (isinstance(lt, float) and np.isinf(lt)): max_lt = max(max_lt, int(lt or 0))
UpdateMaxLt(max_lt, lt) ==
    IF lt.k \in {"inf", "ninf"} THEN max_lt ELSE Max(max_lt, IntOf(lt))

\* prem > max_premium, with prem = (cost_o - baseline) / baseline * 100, or
\* 0 when the baseline is not above 1e-9
PremiumOver(cost_o, baseline_cost, config) ==
    IF baseline_cost.v > 0
    THEN (cost_o.v - baseline_cost.v) * 100 > config.max_premium * baseline_cost.v
    ELSE 0 > config.max_premium

InPool(o, qty_needed, baseline_cost, config) ==
    /\ eff_lt(o, qty_needed).k # "inf"
    /\ ~(eff_lt(o, qty_needed).v > config.target_lead_time_days * Den)
    /\ ~PremiumOver(o.cost, baseline_cost, config)

Constrained(opts, qty_needed, baseline_cost, config) ==
    SelectSeq(opts, LAMBDA o : InPool(o, qty_needed, baseline_cost, config))

MinOf(S) == CHOOSE x \in S : \A y \in S : x <= y
MaxOf(S) == CHOOSE x \in S : \A y \in S : x >= y

\* max(max_c - min_c, 1e-9): a zero range becomes the floor, under which
\* every normalised value is 0 / 1e-9 = 0
Rng(S) == IF MaxOf(S) = MinOf(S) THEN 1 ELSE MaxOf(S) - MinOf(S)

\* the double of a weight given in hundredths, as the literal denotes it
WeightDouble(hundredths) == FloatQuotient(hundredths, 100)

\* (v - min) / rng on the values S of the pool
Normalised(v, S) == FloatQuotient(v - MinOf(S), Rng(S))

\* score = cost_weight * nc + lead_weight * nl, then += 0.5 and += 0.1, each
\* product and each sum rounded to a double
Score(o, pool, qty_needed, config) ==
    LET costs   == {pool[i].cost.v : i \in 1..Len(pool)}
        lts     == {eff_lt(pool[i], qty_needed).v : i \in 1..Len(pool)}
        nc      == Normalised(o.cost.v, costs)
        nl      == Normalised(eff_lt(o, qty_needed).v, lts)
        score   == FloatAdd(FloatTimes(WeightDouble(config.cost_weight), nc),
                            FloatTimes(WeightDouble(config.lead_time_weight), nl))
        flagged == IF o.eol \/ o.discontinued THEN FloatAdd(score, FloatQuotient(1, 2)) ELSE score
    IN  IF o.stock < qty_needed THEN FloatAdd(flagged, FloatQuotient(1, 10)) ELSE flagged

\* the loop that keeps the first option of strictly smallest score
RECURSIVE BestScoreFrom(_, _, _, _, _)
BestScoreFrom(pool, i, best, qty_needed, config) ==
    IF i > Len(pool) THEN best
    ELSE IF Greater(Score(best, pool, qty_needed, config), Score(pool[i], pool, qty_needed, config))
    THEN BestScoreFrom(pool, i + 1, pool[i], qty_needed, config)
    ELSE BestScoreFrom(pool, i + 1, best, qty_needed, config)

\* a variant that falls back to the lowest-cost option
OptimizedFallbackToBest(best, fastest) == best

\* opt_chosen = fastest when the pool is empty
OptimizedFallback(best, fastest) == fastest

OptChosen(opts, qty_needed, config) ==
    LET best == MinCost(opts)
        pool == Constrained(opts, qty_needed, best.cost, config)
    IN  IF pool # <<>> THEN BestScoreFrom(pool, 2, pool[1], qty_needed, config)
        ELSE OptimizedFallback(best, Fastest(opts, qty_needed))

\* strategies[name]["parts"][pn] = o; total_cost += o["cost"]; max_lt as given
Choose(strategy, pn, o, max_lt) ==
    [total_cost |-> Frac(strategy.total_cost.v + o.cost.v),
     max_lt     |-> max_lt,
     parts      |-> [x \in DOMAIN strategy.parts \cup {pn} |->
                        IF x = pn THEN o ELSE strategy.parts[x]],
     invalid    |-> strategy.invalid]

\* a variant that looks at the options only
PartSkippedOnOptions(part) == valid_opts(part._options) = <<>>

\* the two continue statements
PartSkipped(part) == ~part._valid \/ valid_opts(part._options) = <<>>

\* a variant that takes the lowest-cost option whatever its stock
InStockChoiceIgnoringStock(opts, qty_needed, best) == best

\* chosen = min(in_stock, key=cost) if in_stock else best
InStockChoice(opts, qty_needed, best) ==
    LET in_stock == SelectSeq(opts, LAMBDA o : InStock(o, qty_needed))
    IN  IF in_stock # <<>> THEN MinCost(in_stock) ELSE best

\* a variant in which Lowest Cost (In Stock) records nothing for a part that
\* no option holds in stock
ProcessPartInStockOnly(strategies, part, config) ==
    IF PartSkipped(part) THEN strategies
    ELSE LET opts    == valid_opts(part._options)
             pn      == part.PartNumber
             qty     == part.QtyNeed
             best    == MinCost(opts)
             chosen  == InStockChoice(opts, qty, best)
             fastest == Fastest(opts, qty)
             opt     == OptChosen(opts, qty, config)
         IN  [s \in StrategyNames |->
                CASE s = STRICT ->
                        Choose(strategies[s], pn, best,
                               UpdateMaxLt(strategies[s].max_lt, best.lead_time))
                  [] s = IN_STOCK ->
                        IF \E k \in 1..Len(opts) : InStock(opts[k], qty)
                        THEN Choose(strategies[s], pn, chosen, strategies[s].max_lt)
                        ELSE strategies[s]
                  [] s = FASTEST ->
                        Choose(strategies[s], pn, fastest,
                               UpdateMaxLt(strategies[s].max_lt, eff_lt(fastest, qty)))
                  [] s = OPTIMIZED ->
                        Choose(strategies[s], pn, opt,
                               UpdateMaxLt(strategies[s].max_lt, eff_lt(opt, qty)))]

\* one iteration of the loop over part_results
ProcessPart(strategies, part, config) ==
    IF PartSkipped(part) THEN strategies
    ELSE LET opts    == valid_opts(part._options)
             pn      == part.PartNumber
             qty     == part.QtyNeed
             best    == MinCost(opts)
             chosen  == InStockChoice(opts, qty, best)
             fastest == Fastest(opts, qty)
             opt     == OptChosen(opts, qty, config)
         IN  [s \in StrategyNames |->
                CASE s = STRICT ->
                        Choose(strategies[s], pn, best,
                               UpdateMaxLt(strategies[s].max_lt, best.lead_time))
                  [] s = IN_STOCK ->
                        Choose(strategies[s], pn, chosen, strategies[s].max_lt)
                  [] s = FASTEST ->
                        Choose(strategies[s], pn, fastest,
                               UpdateMaxLt(strategies[s].max_lt, eff_lt(fastest, qty)))
                  [] s = OPTIMIZED ->
                        Choose(strategies[s], pn, opt,
                               UpdateMaxLt(strategies[s].max_lt, eff_lt(opt, qty)))]

\* the strategies after the first i part results
RECURSIVE StrategiesAfter(_, _, _)
StrategiesAfter(part_results, i, config) ==
    IF i = 0 THEN <<FreshStrategies>>
    ELSE LET prev == StrategiesAfter(part_results, i - 1, config)
         IN  Append(prev, ProcessPart(prev[i], part_results[i], config))

calculate_strategies(part_results, config) ==
    StrategiesAfter(part_results, Len(part_results), config)[Len(part_results) + 1]

\* ------------------------------------------------------------ SpecStrat
\* calls of calculate_strategies on one list of part results and one config
OptionInputs ==
    {Option(Num(2), 0, Num(20), FALSE, FALSE), Option(Num(3), 0, Num(10), FALSE, FALSE),
     Option(Num(3), 5, Inf, FALSE, FALSE),     Option(Num(4), 5, Num(10), FALSE, FALSE),
     Option(Num(4), 0, Inf, FALSE, FALSE),     Option(Num(2), 0, Num(10), TRUE, FALSE),
     Option(NaN, 5, Num(10), FALSE, FALSE),    Option(Inf, 0, Num(10), FALSE, TRUE),
     Option(Num(3), 5, Inf, TRUE, FALSE)}

ConfigInputs ==
    {Config(t, p, 50, 50) : t \in {5, 15, 56}, p \in {15, 50}}
        \cup {Config(56, 15, 100, 0), Config(56, 15, 0, 100), Config(56, 50, 30, 70)}

DefaultConfig == Config(56, 15, 50, 50)

\* the option lists of the part results of a longer list
FewOptionLists ==
    {<<>>,
     <<Option(Num(2), 0, Num(20), FALSE, FALSE)>>,
     <<Option(Num(4), 5, Num(10), FALSE, FALSE)>>,
     <<Option(NaN, 5, Num(10), FALSE, FALSE)>>,
     <<Option(Num(2), 0, Num(20), FALSE, FALSE), Option(Num(3), 0, Num(10), FALSE, FALSE)>>,
     <<Option(Num(3), 0, Num(10), FALSE, FALSE), Option(Num(4), 5, Num(10), FALSE, FALSE)>>}

FewParts ==
    {PartResult(pn, valid, 5, opts) :
        pn \in {"PN1", "PN2"}, valid \in BOOLEAN, opts \in FewOptionLists}

StratArgs(part_results, config) == [part_results |-> part_results, config |-> config]

InitStrat ==
    /\ \/ \E valid \in BOOLEAN, opts \in SeqsUpTo(OptionInputs, MaxOpts), config \in ConfigInputs :
              strat_args = StratArgs(<<PartResult("PN1", valid, 5, opts)>>, config)
       \/ \E part_results \in SeqsUpTo(FewParts, MaxParts), config \in {DefaultConfig, Config(5, 50, 50, 50)} :
              strat_args = StratArgs(part_results, config)
    /\ strat_ret = NoCall
    /\ strat_prev = NoCall
    /\ strat_calls = 0
    /\ CostIdle /\ RiskIdle /\ PartIdle /\ NexarIdle

CalculateStrategies ==
    /\ strat_calls < MaxRuns
    /\ strat_ret' = calculate_strategies(strat_args.part_results, strat_args.config)
    /\ strat_prev' = [args |-> strat_args, ret |-> strat_ret]
    /\ strat_calls' = strat_calls + 1
    /\ UNCHANGED <<strat_args, cost_vars, risk_vars, part_vars, nexar_vars>>

NextStrat == CalculateStrategies

SpecStrat == InitStrat /\ [][NextStrat]_vars

\* -------------------------------------------------- analyze_single_part
\* What get_part_data_parallel gives: a TimeoutError out of as_completed, or
\* the dict of the suppliers that answered with data, in completion order,
\* here a sequence of [name, sd].  A supplier record sd carries Source,
\* Stock, LeadTimeDays, MinOrderQty, Pricing, CountryOfOrigin, EndOfLife and
\* Discontinued.  Of the part result the fields the engine computes are
\* kept; RiskScore is in tenths and the joined Notes are the list of notes.
Supplier(source, stock, lt_days, moq, pricing, coo, eol, disc) ==
    [Source |-> source, Stock |-> stock, LeadTimeDays |-> lt_days,
     MinOrderQty |-> moq, Pricing |-> pricing, CountryOfOrigin |-> coo,
     EndOfLife |-> eol, Discontinued |-> disc]

Fetched(supplier_data) == [timeout |-> FALSE, supplier_data |-> supplier_data]
FetchTimedOut == [timeout |-> TRUE, supplier_data |-> <<>>]

COO_UNKNOWN == <<"U", "n", "k", "n", "o", "w", "n">>
COO_NA      == <<"N", "/", "A">>
EOL_NOTE    == <<"E", "O", "L">>
DISC_NOTE   == <<"D", "I", "S", "C">>

\* int(bom_qty_per_unit * total_units)
TotalQtyNeeded(bom_qty_per_unit, config) == bom_qty_per_unit * config.total_units

\* the dict appended to all_options for one supplier
BuildOption(sd, total_qty_needed, config) ==
    LET priced == get_optimal_cost(Num(total_qty_needed), sd.Pricing, sd.MinOrderQty,
                                   config.buy_up_threshold)
        lt_days == sd.LeadTimeDays
    IN  [raised           |-> priced.raised,
         source           |-> sd.Source,
         stock            |-> sd.Stock,
         lead_time        |-> IF notna(lt_days) THEN lt_days ELSE Inf,
         effective_lead   |-> IF lt_days.k = "nan" THEN Inf
                              ELSE IF sd.Stock >= total_qty_needed THEN Num(0)
                              ELSE IF notna(lt_days) THEN lt_days ELSE Inf,
         unit_cost        |-> IF priced.raised THEN NaN ELSE priced.unit_price,
         cost             |-> IF priced.raised THEN NaN ELSE priced.total_cost,
         actual_order_qty |-> IF priced.raised THEN NaN ELSE priced.actual_order_qty,
         notes            |-> IF priced.raised THEN <<>> ELSE priced.notes,
         coo              |-> sd.CountryOfOrigin,
         eol              |-> sd.EndOfLife,
         discontinued     |-> sd.Discontinued,
         lifecycle        |-> IF sd.EndOfLife THEN "EOL"
                              ELSE IF sd.Discontinued THEN "DISC" ELSE "Active"]

\* all_options after the first i suppliers
RECURSIVE OptionsUpTo(_, _, _, _)
OptionsUpTo(supplier_data, i, total_qty_needed, config) ==
    IF i = 0 THEN <<>>
    ELSE Append(OptionsUpTo(supplier_data, i - 1, total_qty_needed, config),
                BuildOption(supplier_data[i].sd, total_qty_needed, config))

AllOptions(supplier_data, total_qty_needed, config) ==
    OptionsUpTo(supplier_data, Len(supplier_data), total_qty_needed, config)

\* the first option whose coo is not "Unknown", "N/A" or ""
ConsolidatedCoo(all_options) ==
    LET known == SelectSeq(all_options, LAMBDA o : o.coo \notin {COO_UNKNOWN, COO_NA, <<>>})
    IN  IF known = <<>> THEN COO_UNKNOWN ELSE known[1].coo

\* a variant in which the last flagged option decides
LifecycleNotesLastFlagged(all_options, i) ==
    LET flagged == {j \in 1..i : all_options[j].eol \/ all_options[j].discontinued}
    IN  IF flagged = {} THEN <<>>
        ELSE IF all_options[MaxOf(flagged)].eol THEN EOL_NOTE ELSE DISC_NOTE

\* the loop of lines 468-470 over the first i options
RECURSIVE LifecycleNotes(_, _)
LifecycleNotes(all_options, i) ==
    IF i = 0 THEN <<>>
    ELSE IF all_options[i].eol THEN EOL_NOTE
    ELSE IF all_options[i].discontinued
    THEN (IF LifecycleNotes(all_options, i - 1) = <<>> THEN DISC_NOTE
          ELSE LifecycleNotes(all_options, i - 1))
    ELSE LifecycleNotes(all_options, i - 1)

\* min(opts, key=lead_time)
RECURSIVE MinLeadFrom(_, _, _)
MinLeadFrom(opts, i, best) ==
    IF i > Len(opts) THEN best
    ELSE IF FloatLess(opts[i].lead_time, best.lead_time) THEN MinLeadFrom(opts, i + 1, opts[i])
    ELSE MinLeadFrom(opts, i + 1, best)

NoOption == [k |-> "none", v |-> 0]

BestCostOption(all_options) ==
    IF valid_opts(all_options) = <<>> THEN NoOption ELSE MinCost(valid_opts(all_options))

FastestOption(all_options, total_qty_needed) ==
    LET in_stock == SelectSeq(all_options, LAMBDA o : o.stock >= total_qty_needed)
        with_lt  == SelectSeq(all_options, LAMBDA o : o.lead_time # Inf)
    IN  IF in_stock # <<>> THEN MinCost(in_stock)
        ELSE IF with_lt # <<>> THEN MinLeadFrom(with_lt, 2, with_lt[1])
        ELSE NoOption

RECURSIVE TotalStock(_, _)
TotalStock(all_options, i) ==
    IF i = 0 THEN 0 ELSE TotalStock(all_options, i - 1) + all_options[i].stock

FastestLtDays(fastest_option) ==
    IF fastest_option = NoOption \/ fastest_option.lead_time.k \in {"inf", "ninf"}
    THEN NaN ELSE fastest_option.lead_time

Status(lifecycle_notes) ==
    IF Contains(lifecycle_notes, EOL_NOTE) THEN "EOL"
    ELSE IF Contains(lifecycle_notes, DISC_NOTE) THEN "Discontinued"
    ELSE "Active"

\* str(n) for a small count
Digits == <<"0", "1", "2", "3", "4", "5", "6", "7", "8", "9">>
str(n) == Digits[n + 1]

\* the dict returned when there is no supplier data
NotFoundResult(bom_pn, total_qty_needed) ==
    [raised |-> FALSE, PartNumber |-> bom_pn, QtyNeed |-> total_qty_needed,
     Status |-> "Not Found", Sources |-> "0", StockAvail |-> 0,
     COO |-> COO_UNKNOWN, RiskScore |-> 100, ActualBuyQty |-> "N/A",
     BestCostSrc |-> "N/A", Notes |-> <<Note("No data", 0)>>,
     _options |-> <<>>, _valid |-> FALSE]

\* the dict returned otherwise
AnalyzedResult(bom_pn, total_qty_needed, all_options) ==
    LET best_cost_option == BestCostOption(all_options)
        total_stock      == TotalStock(all_options, Len(all_options))
        lifecycle_notes  == LifecycleNotes(all_options, Len(all_options))
        consolidated_coo == ConsolidatedCoo(all_options)
        risk == calculate_risk_score(Len(valid_opts(all_options)), total_stock,
                    total_qty_needed,
                    FastestLtDays(FastestOption(all_options, total_qty_needed)),
                    lifecycle_notes, consolidated_coo)
    IN  IF risk.raised THEN Raised("TypeError")
        ELSE [raised |-> FALSE, PartNumber |-> bom_pn, QtyNeed |-> total_qty_needed,
              Status |-> Status(lifecycle_notes),
              Sources |-> str(Len(valid_opts(all_options))),
              StockAvail |-> total_stock,
              COO |-> consolidated_coo,
              RiskScore |-> risk.overall10,
              RiskFactors |-> risk.risk_factors,
              BestCostPerRaw |-> IF best_cost_option = NoOption THEN NaN
                                 ELSE best_cost_option.unit_cost,
              BestTotalCostRaw |-> IF best_cost_option = NoOption THEN NaN
                                   ELSE best_cost_option.cost,
              ActualBuyQty |-> IF best_cost_option = NoOption THEN "N/A"
                               ELSE best_cost_option.actual_order_qty,
              BestCostSrc |-> IF best_cost_option = NoOption THEN "N/A"
                              ELSE best_cost_option.source,
              Notes |-> (IF total_stock < total_qty_needed
                         THEN <<Note("Stock Gap", 0)>> ELSE <<>>)
                        \o (IF best_cost_option # NoOption /\ best_cost_option.notes # <<>>
                            THEN best_cost_option.notes ELSE <<>>),
              _options |-> all_options,
              _valid |-> valid_opts(all_options) # <<>>]

\* a variant that never takes the early return
NoSupplierDataIgnored(supplier_data) == FALSE

\* if not supplier_data
NoSupplierData(supplier_data) == supplier_data = <<>>

analyze_single_part(bom_pn, bom_qty_per_unit, config, fetch) ==
    IF fetch.timeout THEN Raised("TimeoutError")
    ELSE IF NoSupplierData(fetch.supplier_data)
    THEN NotFoundResult(bom_pn, TotalQtyNeeded(bom_qty_per_unit, config))
    ELSE LET total_qty_needed == TotalQtyNeeded(bom_qty_per_unit, config)
             all_options == AllOptions(fetch.supplier_data, total_qty_needed, config)
         IN  IF \E i \in 1..Len(all_options) : all_options[i].raised
             THEN Raised("ValueError")
             ELSE AnalyzedResult(bom_pn, total_qty_needed, all_options)

\* ------------------------------------------------------------- SpecPart
\* one call of analyze_single_part
PartConfig(total_units, buy_up_threshold) ==
    [total_units |-> total_units, buy_up_threshold |-> buy_up_threshold]

PricingInputs ==
    {List(<<>>), List(<<Break(Num(1), Num(2))>>),
     List(<<Break(Num(1), Num(3)), Break(Num(2), Num(2))>>)}

SupplierInputs ==
    {Supplier("Mouser", stock, lt, Num(moq), pricing, coo, fl[1], fl[2]) :
        stock \in {0, 2}, lt \in {NaN, Num(0), Num(10), Num(50)}, moq \in {1, 3},
        pricing \in PricingInputs,
        coo \in {COO_UNKNOWN, <<>>, <<"C", "h", "i", "n", "a">>},
        fl \in {<<FALSE, FALSE>>, <<TRUE, FALSE>>, <<FALSE, TRUE>>}}

\* the answers of the second supplier
FewSuppliers ==
    {Supplier("Digi-Key", stock, lt, Num(1), pricing, COO_UNKNOWN, FALSE, disc) :
        stock \in {0, 2}, lt \in {NaN, Num(10)},
        pricing \in {List(<<>>), List(<<Break(Num(1), Num(2))>>)}, disc \in BOOLEAN}

FirstSuppliers ==
    {Supplier("Mouser", stock, lt, Num(1), List(<<Break(Num(1), Num(p))>>), coo, eol, FALSE) :
        stock \in {0, 2}, lt \in {NaN, Num(50)}, p \in {2, 3},
        coo \in {<<>>, <<"M", "e", "x", "i", "c", "o">>}, eol \in BOOLEAN}

PartArgs(bom_pn, bom_qty_per_unit, config, fetch) ==
    [bom_pn |-> bom_pn, bom_qty_per_unit |-> bom_qty_per_unit, config |-> config,
     fetch |-> fetch]

CallPart(a) == analyze_single_part(a.bom_pn, a.bom_qty_per_unit, a.config, a.fetch)

InitPart ==
    /\ \E qty \in 0..2, units \in {1, 2} :
          \/ part_args = PartArgs("PN1", qty, PartConfig(units, Num(1)), FetchTimedOut)
          \/ part_args = PartArgs("PN1", qty, PartConfig(units, Num(1)), Fetched(<<>>))
          \/ \E name \in {"Mouser", "Nexar"}, sd \in SupplierInputs :
                part_args = PartArgs("PN1", qty, PartConfig(units, Num(1)),
                                     Fetched(<<[name |-> name, sd |-> sd]>>))
          \/ \E m \in FirstSuppliers, n \in FewSuppliers :
                \/ part_args = PartArgs("PN1", qty, PartConfig(units, Num(1)),
                        Fetched(<<[name |-> "Mouser", sd |-> m], [name |-> "Nexar", sd |-> n]>>))
                \/ part_args = PartArgs("PN1", qty, PartConfig(units, Num(1)),
                        Fetched(<<[name |-> "Nexar", sd |-> n], [name |-> "Mouser", sd |-> m]>>))
    /\ part_ret = NoCall
    /\ CostIdle /\ RiskIdle /\ StratIdle /\ NexarIdle

AnalyzeSinglePart ==
    /\ part_ret = NoCall
    /\ part_ret' = CallPart(part_args)
    /\ UNCHANGED <<part_args, cost_vars, risk_vars, strat_vars, nexar_vars>>

NextPart == AnalyzeSinglePart

SpecPart == InitPart /\ [][NextPart]_vars

\* ------------------------------------------------------------ SpecNexar
\* One analysis run: the loop over the BOM rows calls analyze_single_part,
\* whose get_part_data_parallel submits one search_mouser and one
\* search_nexar task to a thread pool and leaves its with-block only when
\* every task has ended.  The token cache is the dict the run creates and
\* hands to every call.  Time is in seconds from the start of the run.
UnsetKey  == [set |-> FALSE, val |-> 0]
Stored(v) == [set |-> TRUE, val |-> v]
EmptyCache == [access_token |-> UnsetKey, expires_at |-> UnsetKey]

\* what the identity server answers: an exception out of the request, or a
\* JSON object with or without a token, whose expires_in is missing, a
\* number of seconds, null or text
MissingKey == [k |-> "missing", v |-> 0]
Seconds(n) == [k |-> "int", v |-> n]
TokenResponse(status, access_token, expires_in) ==
    [status |-> status, access_token |-> access_token, expires_in |-> expires_in]
NoResponse == TokenResponse("none", FALSE, MissingKey)

ExpiresInInputs ==
    {MissingKey, Seconds(2 * ExpiryMargin + FetchTimeout),
     Seconds(2 * ExpiryMargin + FetchTimeout + 1), None, Str}

TokenResponses ==
    {TokenResponse("error", FALSE, MissingKey), TokenResponse("ok", FALSE, MissingKey)}
        \cup {TokenResponse("ok", TRUE, e) : e \in ExpiresInInputs}

\* _token_cache.get("expires_at", 0) > now + 60
TokenFresh(cache, now) ==
    (IF cache.expires_at.set THEN cache.expires_at.val ELSE 0) > now + ExpiryMargin

\* td.get("expires_in", 3600)
ExpiresIn(td) == IF td.expires_in.k = "missing" THEN DefaultExpiresIn ELSE td.expires_in.v

\* a submitted task: where it stands, the locals now, td and token of
\* search_nexar, the cache it found, whether it asked for a token, the keys
\* it has written and what it returned
NewTask ==
    [pc |-> "submitted", now |-> 0, cache0 |-> EmptyCache, requested |-> FALSE,
     td |-> NoResponse, token |-> UnsetKey, wrote |-> {}, result |-> "pending"]

TasksOf(i) == {id \in DOMAIN nexar_tasks : id[1] = i}
AllEnded(i) == \A id \in TasksOf(i) : nexar_tasks[id].pc = "done"
NexarTasksAt(pc) == {id \in DOMAIN nexar_tasks : id[2] = "Nexar" /\ nexar_tasks[id].pc = pc}
MouserTasksAt(pc) == {id \in DOMAIN nexar_tasks : id[2] = "Mouser" /\ nexar_tasks[id].pc = pc}

\* run_btn pressed: nexar_token_cache = {} and the keys of the sidebar
InitNexar ==
    /\ nexar_clock = 0
    /\ nexar_issued = 0
    /\ nexar_token_cache = EmptyCache
    /\ nexar_tasks = <<>>
    /\ \E n \in 1..MaxBomParts, mouser_key \in BOOLEAN, nexar_keys \in BOOLEAN :
          nexar_run = [pc |-> "loop", i |-> 0, n |-> n, mouser_key |-> mouser_key,
                       nexar_keys |-> nexar_keys, fetch_start |-> 0]
    /\ CostIdle /\ RiskIdle /\ StratIdle /\ PartIdle

OtherIdle == UNCHANGED <<cost_vars, risk_vars, strat_vars, part_vars>>

\* the next row: analyze_single_part calls get_part_data_parallel, which
\* submits the tasks of the suppliers whose keys are set
StartPart ==
    /\ nexar_run.pc = "loop" /\ nexar_run.i < nexar_run.n
    /\ LET i      == nexar_run.i + 1
           new    == (IF nexar_run.mouser_key THEN {<<i, "Mouser">>} ELSE {})
                        \cup (IF nexar_run.nexar_keys THEN {<<i, "Nexar">>} ELSE {})
           living == {id \in DOMAIN nexar_tasks : nexar_tasks[id].pc # "done"}
       IN  /\ nexar_tasks' = [id \in living \cup new |->
                                 IF id \in new THEN NewTask ELSE nexar_tasks[id]]
           /\ nexar_run' = [nexar_run EXCEPT !.pc = "fetch", !.i = i,
                                             !.fetch_start = nexar_clock]
    /\ UNCHANGED <<nexar_clock, nexar_issued, nexar_token_cache>>
    /\ OtherIdle

\* search_mouser, which takes no cache
MouserSearch ==
    /\ \E id \in MouserTasksAt("submitted"), found \in BOOLEAN :
          nexar_tasks' = [nexar_tasks EXCEPT ![id].pc = "done",
                              ![id].result = IF found THEN "data" ELSE "none"]
    /\ UNCHANGED <<nexar_clock, nexar_issued, nexar_token_cache, nexar_run>>
    /\ OtherIdle

\* now = time.time(); the cached token is taken if its expiry is more than
\* 60 seconds away, else a token is requested
NexarBegin ==
    /\ \E id \in NexarTasksAt("submitted") :
          nexar_tasks' = [nexar_tasks EXCEPT ![id] =
              IF TokenFresh(nexar_token_cache, nexar_clock)
              THEN [@ EXCEPT !.pc = "search", !.now = nexar_clock,
                             !.cache0 = nexar_token_cache,
                             !.token = nexar_token_cache.access_token]
              ELSE [@ EXCEPT !.pc = "token_request", !.now = nexar_clock,
                             !.cache0 = nexar_token_cache, !.requested = TRUE]]
    /\ UNCHANGED <<nexar_clock, nexar_issued, nexar_token_cache, nexar_run>>
    /\ OtherIdle

\* the answer to the token request: an exception or an answer without a
\* token returns None, a token goes on to be stored
NexarTokenResponse ==
    /\ \E id \in NexarTasksAt("token_request"), td \in TokenResponses :
          IF td.status = "ok" /\ td.access_token
          THEN /\ nexar_tasks' = [nexar_tasks EXCEPT ![id].pc = "store_token", ![id].td = td,
                                      ![id].token = Stored(nexar_issued + 1)]
               /\ nexar_issued' = nexar_issued + 1
          ELSE /\ nexar_tasks' = [nexar_tasks EXCEPT ![id].pc = "done", ![id].td = td,
                                      ![id].result = "none"]
               /\ nexar_issued' = nexar_issued
    /\ UNCHANGED <<nexar_clock, nexar_token_cache, nexar_run>>
    /\ OtherIdle

\* _token_cache["access_token"] = token
NexarStoreToken ==
    /\ \E id \in NexarTasksAt("store_token") :
          /\ nexar_token_cache' = [nexar_token_cache EXCEPT !.access_token = nexar_tasks[id].token]
          /\ nexar_tasks' = [nexar_tasks EXCEPT ![id].pc = "store_expiry",
                                 ![id].wrote = @ \cup {"access_token"}]
    /\ UNCHANGED <<nexar_clock, nexar_issued, nexar_run>>
    /\ OtherIdle

\* _token_cache["expires_at"] = now + td.get("expires_in", 3600) - 60; the sum
\* raises TypeError on an expires_in that is no number, and the bare except
\* returns None
NexarStoreExpiry ==
    /\ \E id \in NexarTasksAt("store_expiry") :
          IF nexar_tasks[id].td.expires_in.k \in {"missing", "int"}
          THEN /\ nexar_token_cache' =
                      [nexar_token_cache EXCEPT !.expires_at =
                          Stored(nexar_tasks[id].now + ExpiresIn(nexar_tasks[id].td) - ExpiryMargin)]
               /\ nexar_tasks' = [nexar_tasks EXCEPT ![id].pc = "search",
                                      ![id].wrote = @ \cup {"expires_at"}]
          ELSE /\ nexar_token_cache' = nexar_token_cache
               /\ nexar_tasks' = [nexar_tasks EXCEPT ![id].pc = "done", ![id].result = "none"]
    /\ UNCHANGED <<nexar_clock, nexar_issued, nexar_run>>
    /\ OtherIdle

\* the GraphQL search with the token: a result dict or None
NexarSearch ==
    /\ \E id \in NexarTasksAt("search"), found \in BOOLEAN :
          nexar_tasks' = [nexar_tasks EXCEPT ![id].pc = "done",
                              ![id].result = IF found THEN "data" ELSE "none"]
    /\ UNCHANGED <<nexar_clock, nexar_issued, nexar_token_cache, nexar_run>>
    /\ OtherIdle

\* as_completed has yielded every task; the with-block ends and the loop
\* goes on to the next row
AllCompleted ==
    /\ nexar_run.pc = "fetch" /\ AllEnded(nexar_run.i)
    /\ nexar_run' = [nexar_run EXCEPT !.pc = "loop"]
    /\ UNCHANGED <<nexar_clock, nexar_issued, nexar_token_cache, nexar_tasks>>
    /\ OtherIdle

\* as_completed(tasks, timeout=30) raises TimeoutError with a task still
\* running; leaving the with-block waits for the pool
FetchTimesOut ==
    /\ nexar_run.pc = "fetch" /\ ~AllEnded(nexar_run.i)
    /\ nexar_clock - nexar_run.fetch_start >= FetchTimeout
    /\ nexar_run' = [nexar_run EXCEPT !.pc = "join"]
    /\ UNCHANGED <<nexar_clock, nexar_issued, nexar_token_cache, nexar_tasks>>
    /\ OtherIdle

\* the pool has shut down; the TimeoutError leaves analyze_single_part and
\* the loop
JoinedAfterTimeout ==
    /\ nexar_run.pc = "join" /\ AllEnded(nexar_run.i)
    /\ nexar_run' = [nexar_run EXCEPT !.pc = "aborted"]
    /\ UNCHANGED <<nexar_clock, nexar_issued, nexar_token_cache, nexar_tasks>>
    /\ OtherIdle

\* the loop is over
RunFinished ==
    /\ nexar_run.pc = "loop" /\ nexar_run.i = nexar_run.n
    /\ nexar_run' = [nexar_run EXCEPT !.pc = "done"]
    /\ UNCHANGED <<nexar_clock, nexar_issued, nexar_token_cache, nexar_tasks>>
    /\ OtherIdle

\* time passes while the run is under way
TimePasses ==
    /\ nexar_run.pc \in {"fetch", "join"} \/ (nexar_run.pc = "loop" /\ nexar_run.i < nexar_run.n)
    /\ nexar_clock + FetchTimeout <= MaxClock
    /\ nexar_clock' = nexar_clock + FetchTimeout
    /\ UNCHANGED <<nexar_issued, nexar_token_cache, nexar_tasks, nexar_run>>
    /\ OtherIdle

NextNexar ==
    \/ StartPart \/ MouserSearch \/ NexarBegin \/ NexarTokenResponse
    \/ NexarStoreToken \/ NexarStoreExpiry \/ NexarSearch
    \/ AllCompleted \/ FetchTimesOut \/ JoinedAfterTimeout \/ RunFinished \/ TimePasses

SpecNexar == InitNexar /\ [][NextNexar]_vars

\* =============================================================== claims
\* get_optimal_cost returned a computed cost (not the sentinel, not an exception)
CostComputed(ret) == ~ret.raised /\ ret.total_cost.k = "num"

\* max(1, min_order_qty) in units of 1/Den; a missing MOQ asks for nothing
MoqFloor(moq) == IF moq.k = "num" THEN Max(Den, moq.v) ELSE Den

\* C1: for every qty_needed > 0, whole or not, every min_order_qty and every
\* price list with a valid break, the order quantity get_optimal_cost returns
\* is >= qty_needed and >= max(1, min_order_qty).
C1_OrderQtyCoversNeed ==
    (/\ cost_calls > 0
     /\ cost_args.qty_needed.k = "num"
     /\ cost_args.qty_needed.v > 0
     /\ CostComputed(cost_ret))
    => /\ cost_ret.actual_order_qty.v >= cost_args.qty_needed.v
       /\ cost_ret.actual_order_qty.v >= MoqFloor(cost_args.min_order_qty)

\* C2: with the price list, MOQ and threshold (>= 0) held fixed, a call with
\* the smaller qty_needed never returns the larger order quantity.
C2_OrderQtyMonotone ==
    (/\ cost_prev # NoCall
     /\ CostComputed(cost_prev.ret)
     /\ CostComputed(cost_ret))
    => /\ (cost_prev.qty_needed.v <= cost_args.qty_needed.v
            => cost_prev.ret.actual_order_qty.v <= cost_ret.actual_order_qty.v)
       /\ (cost_args.qty_needed.v <= cost_prev.qty_needed.v
            => cost_ret.actual_order_qty.v <= cost_prev.ret.actual_order_qty.v)

\* C3: the documented buy-up example (50 needed, breaks 1 @ 10, 100 @ 9,
\* 1000 @ 5, MOQ 1, threshold 1 percent) returns unit price 10, total cost
\* 500 and order quantity 50, with no upgrade to a larger break.
C3_BuyUpExample ==
    (cost_calls > 0 /\ cost_args = ExampleArgs)
    => /\ ~cost_ret.raised
       /\ cost_ret.unit_price = Num(10)
       /\ cost_ret.total_cost = Num(500)
       /\ cost_ret.actual_order_qty = Num(50)

C3_Witness == cost_calls > 0 /\ cost_args = ExampleArgs /\ CostComputed(cost_ret)

\* the inputs C4 names: qty_needed not a positive finite number, the price
\* list not a list, or no break surviving validation
InvalidCostInput(a) ==
    \/ a.qty_needed.k # "num"
    \/ a.qty_needed.v <= 0
    \/ ~a.pricing_breaks.list
    \/ \A i \in 1..Len(a.pricing_breaks.items) :
          BreakRaises(a.pricing_breaks.items[i]) \/ ~KeepBreak(a.pricing_breaks.items[i])

\* C4: on such inputs get_optimal_cost never raises: it returns an undefined
\* unit price and total cost together with a non-empty note.
C4_InvalidInputGivesSentinel ==
    (cost_calls > 0 /\ InvalidCostInput(cost_args))
    => /\ ~cost_ret.raised
       /\ cost_ret.unit_price = NaN
       /\ cost_ret.total_cost = NaN
       /\ cost_ret.notes # <<>>

\* the inputs C5 names: counts and stock >= 0, a lead time that is a number,
\* NaN, infinite or undefined
RiskDomain(a) ==
    a.sourcing_count >= 0 /\ a.stock_available >= 0 /\ a.lead_time_days.k # "str"

\* C5: calculate_risk_score is total on those inputs: it returns an overall
\* score within [0, 10] and a factor map with exactly the five keys
\* Sourcing, Stock, LeadTime, Lifecycle and Geographic.
C5_RiskScoreTotal ==
    (risk_ret # NoCall /\ RiskDomain(risk_args))
    => /\ ~risk_ret.raised
       /\ risk_ret.overall10 \in 0..100
       /\ DOMAIN risk_ret.risk_factors
            = {"Sourcing", "Stock", "LeadTime", "Lifecycle", "Geographic"}

C5_Witness ==
    /\ risk_ret # NoCall
    /\ risk_args.lead_time_days = None
    /\ risk_args.coo = <<>>
    /\ ~risk_ret.raised
    /\ risk_ret.overall10 > 0

\* C6: the documented risk example (no source, stock 0 of 10 needed, lead
\* time undefined, notes "EOL", origin "China") has the factors 10, 8, 9, 10
\* and 7, and its weighted sum 9.25 is reported as the overall score 9.3.
C6_RiskExample ==
    (risk_ret # NoCall /\ risk_args = RiskExampleArgs)
    => /\ ~risk_ret.raised
       /\ risk_ret.risk_factors = [Sourcing |-> 10, Stock |-> 8, LeadTime |-> 9,
                                   Lifecycle |-> 10, Geographic |-> 7]
       /\ risk_ret.overall10 = 93

\* the parts C7 names: the _valid flag is false, or no option has a defined
\* finite cost
C7_Invalid(part) ==
    ~part._valid \/ \A k \in 1..Len(part._options) : part._options[k].cost.k # "num"

RemoveAt(s, i) == SubSeq(s, 1, i - 1) \o SubSeq(s, i + 1, Len(s))

\* C7: after calculate_strategies, a part result that is invalid in that
\* sense is absent from the parts map of all four strategies (every entry is
\* a finite-cost option of a part with the entry's part number that is not
\* invalid), and the strategies, the four total_cost values among them, are
\* exactly those of the list with that part removed.
C7_SkippedPartAbsent ==
    strat_calls > 0 =>
        /\ \A i \in 1..Len(strat_args.part_results) :
              C7_Invalid(strat_args.part_results[i]) =>
                  /\ strat_ret = calculate_strategies(RemoveAt(strat_args.part_results, i),
                                                      strat_args.config)
                  /\ \A s \in StrategyNames :
                        strat_ret[s].total_cost =
                            calculate_strategies(RemoveAt(strat_args.part_results, i),
                                                 strat_args.config)[s].total_cost
        /\ \A s \in StrategyNames : \A pn \in DOMAIN strat_ret[s].parts :
              \E j \in 1..Len(strat_args.part_results) :
                  /\ ~C7_Invalid(strat_args.part_results[j])
                  /\ strat_args.part_results[j].PartNumber = pn
                  /\ \E k \in 1..Len(strat_args.part_results[j]._options) :
                        /\ strat_args.part_results[j]._options[k] = strat_ret[s].parts[pn]
                        /\ strat_ret[s].parts[pn].cost.k = "num"

\* a part with priced options but a false _valid flag was skipped next to a
\* part that was processed
C7_Witness ==
    /\ strat_calls > 0
    /\ \E i, j \in 1..Len(strat_args.part_results) :
          /\ ~strat_args.part_results[i]._valid
          /\ \E k \in 1..Len(strat_args.part_results[i]._options) :
                strat_args.part_results[i]._options[k].cost.k = "num"
          /\ ~C7_Invalid(strat_args.part_results[j])
          /\ strat_args.part_results[i].PartNumber # strat_args.part_results[j].PartNumber
    /\ strat_ret[STRICT].total_cost.v > 0

\* part i was processed and no later processed part has its part number
C8_LastProcessed(i) ==
    /\ ~C7_Invalid(strat_args.part_results[i])
    /\ \A j \in (i + 1)..Len(strat_args.part_results) :
          C7_Invalid(strat_args.part_results[j])
              \/ strat_args.part_results[j].PartNumber # strat_args.part_results[i].PartNumber

\* every priced option of the part is slower than the target, or of unknown
\* lead time
C8_AllTooSlow(part, config) ==
    \A k \in 1..Len(part._options) :
        part._options[k].cost.k = "num" =>
            /\ part._options[k].stock < part.QtyNeed
            /\ \/ part._options[k].lead_time.k = "inf"
               \/ part._options[k].lead_time.v > config.target_lead_time_days * Den

C8_PoolEmpty(part, config) ==
    Constrained(valid_opts(part._options), part.QtyNeed,
                MinCost(valid_opts(part._options)).cost, config) = <<>>

\* C8: for a processed part whose priced options all have an effective lead
\* time above target_lead_time_days (or infinite), or more generally whose
\* candidate pool is empty, the option under "Optimized (Cost+LT)" is the
\* option under "Fastest Lead Time".
C8_OptimizedFallsBackToFastest ==
    strat_calls > 0 =>
        \A i \in 1..Len(strat_args.part_results) :
            (/\ C8_LastProcessed(i)
             /\ \/ C8_AllTooSlow(strat_args.part_results[i], strat_args.config)
                \/ C8_PoolEmpty(strat_args.part_results[i], strat_args.config))
            => strat_ret[OPTIMIZED].parts[strat_args.part_results[i].PartNumber]
                 = strat_ret[FASTEST].parts[strat_args.part_results[i].PartNumber]

\* the fallback was taken for a part whose fastest option is not its cheapest
C8_Witness ==
    /\ strat_calls > 0
    /\ \E i \in 1..Len(strat_args.part_results) :
          /\ C8_LastProcessed(i)
          /\ C8_AllTooSlow(strat_args.part_results[i], strat_args.config)
          /\ strat_ret[FASTEST].parts[strat_args.part_results[i].PartNumber]
               # strat_ret[STRICT].parts[strat_args.part_results[i].PartNumber]
          /\ strat_ret[OPTIMIZED].parts[strat_args.part_results[i].PartNumber]
               = strat_ret[FASTEST].parts[strat_args.part_results[i].PartNumber]

C10_NoDataGivesNotFound ==
    (part_ret # NoCall /\ ~part_args.fetch.timeout /\ part_args.fetch.supplier_data = <<>>)
    => /\ ~part_ret.raised
       /\ part_ret._valid = FALSE
       /\ part_ret.RiskScore = 100
       /\ part_ret.Status = "Not Found"
       /\ part_ret._options = <<>>

C10_Witness ==
    /\ part_ret # NoCall
    /\ ~part_args.fetch.timeout
    /\ part_args.fetch.supplier_data = <<>>
    /\ part_args.bom_qty_per_unit > 0
    /\ ~part_ret.raised
    /\ part_ret.Status = "Not Found"

\* some option of the returned part result has a defined finite total cost
HasPricedOption(r) == \E i \in 1..Len(r._options) : r._options[i].cost.k = "num"

\* C11: a part with supplier options of which none has a defined finite
\* total cost yields a part result with _valid false (and _valid is false
\* exactly when no option has such a cost) that carries the risk score 10.0
\* and the status "Not Found", as in the case of no supplier data.
C11_NoValidOptionGivesNotFound ==
    (/\ part_ret # NoCall
     /\ ~part_args.fetch.timeout
     /\ part_args.fetch.supplier_data # <<>>
     /\ ~part_ret.raised)
    => /\ part_ret._valid = HasPricedOption(part_ret)
       /\ ~HasPricedOption(part_ret)
            => /\ part_ret.RiskScore = 100
               /\ part_ret.Status = "Not Found"

\* C12: an input-validation failure of get_optimal_cost (C4's inputs, or a
\* minimum order quantity that is missing, None) gives the undefined result
\* with a note: unit price and total cost undefined, never a computed cost.
C12_MissingMoqGivesSentinel ==
    (cost_calls > 0 /\ (InvalidCostInput(cost_args) \/ cost_args.min_order_qty = None))
    => /\ ~cost_ret.raised
       /\ cost_ret.unit_price = NaN
       /\ cost_ret.total_cost = NaN
       /\ cost_ret.notes # <<>>

\* the break list get_optimal_cost works on after validation
C13_UsedBreaks == SortByQty(valid_breaks(cost_args.pricing_breaks.items))

\* C13: whenever get_optimal_cost computes a cost, the break list it used
\* is strictly ascending in quantity, so no two breaks have the same
\* quantity, and every kept break has a whole quantity > 0 and a defined
\* price >= 0.
C13_ValidBreaksStrictlyAscending ==
    (cost_calls > 0 /\ CostComputed(cost_ret))
    => /\ \A i, j \in 1..Len(C13_UsedBreaks) :
             i < j => C13_UsedBreaks[i].qty < C13_UsedBreaks[j].qty
       /\ \A i \in 1..Len(C13_UsedBreaks) :
             /\ C13_UsedBreaks[i].qty \in Nat \ {0}
             /\ C13_UsedBreaks[i].price >= 0

\* the option calculate_strategies chooses for a processed part under strategy s
C14_Chosen(s, part, config) ==
    LET opts     == valid_opts(part._options)
        in_stock == SelectSeq(opts, LAMBDA o : InStock(o, part.QtyNeed))
    IN  CASE s = STRICT    -> MinCost(opts)
          [] s = IN_STOCK  -> IF in_stock # <<>> THEN MinCost(in_stock) ELSE MinCost(opts)
          [] s = FASTEST   -> Fastest(opts, part.QtyNeed)
          [] s = OPTIMIZED -> OptChosen(opts, part.QtyNeed, config)

\* the lead time of a chosen option, as listed (raw) or as effective lead time
C14_Measured(raw, o, qty_needed) == IF raw THEN o.lead_time ELSE eff_lt(o, qty_needed)

\* the finite lead times of the options chosen under s over the processed parts
C14_FiniteLts(s, raw) ==
    {IntOf(C14_Measured(raw, C14_Chosen(s, strat_args.part_results[i], strat_args.config), strat_args.part_results[i].QtyNeed)) :
        i \in {j \in 1..Len(strat_args.part_results) :
                 /\ ~C7_Invalid(strat_args.part_results[j])
                 /\ C14_Measured(raw, C14_Chosen(s, strat_args.part_results[j], strat_args.config), strat_args.part_results[j].QtyNeed).k = "num"}}

C14_MaxFiniteLt(s, raw) == IF C14_FiniteLts(s, raw) = {} THEN 0 ELSE MaxOf(C14_FiniteLts(s, raw) \cup {0})

\* C14: for each of the four strategies, max_lt is the maximum finite lead
\* time of the options chosen for it over the processed parts (0 if none),
\* for Lowest Cost (In Stock) as for the others, all four measuring the
\* chosen lead time the same way
C14_MaxLtIsMaxChosenLeadTime ==
    strat_ret # NoCall
    => \E raw \in BOOLEAN : \A s \in StrategyNames : strat_ret[s].max_lt = C14_MaxFiniteLt(s, raw)

\* the sum, in units of 1/Den, of the costs of the options held in a parts map
RECURSIVE C15_SumCosts(_, _)
C15_SumCosts(parts, keys) ==
    IF keys = {} THEN 0
    ELSE LET pn == CHOOSE x \in keys : TRUE
         IN  parts[pn].cost.v + C15_SumCosts(parts, keys \ {pn})

\* C15: for every list of part results, lists in which a PartNumber occurs on
\* more than one line included, and for each strategy, total_cost is the sum
\* of the costs of the options held in that strategy's parts map
C15_TotalCostIsSumOfParts ==
    strat_ret # NoCall
    => \A s \in StrategyNames :
          strat_ret[s].total_cost = Frac(C15_SumCosts(strat_ret[s].parts, DOMAIN strat_ret[s].parts))

\* C16: the effective_lead that analyze_single_part stores for an option is 0
\* whenever the option's stock covers the total quantity needed, even with an
\* unknown lead time, otherwise the option's lead time, infinite when that is
\* unknown; so it equals the effective lead time that calculate_strategies
\* recomputes for the same option
C16_EffectiveLeadAgrees ==
    (part_ret # NoCall /\ ~part_ret.raised)
    => \A i \in 1..Len(part_ret._options) :
          /\ part_ret._options[i].stock >= part_ret.QtyNeed => part_ret._options[i].effective_lead = Num(0)
          /\ part_ret._options[i].effective_lead = eff_lt(part_ret._options[i], part_ret.QtyNeed)

\* the same supplier answers, completed in the opposite order
C17_OtherOrder(supplier_data) ==
    [i \in 1..Len(supplier_data) |-> supplier_data[Len(supplier_data) + 1 - i]]

\* C17: for a fixed set of supplier answers the part result of
\* analyze_single_part (order of _options, best-cost option on a tie of total
\* cost, consolidated COO) is the same whichever of the parallel fetches of
\* get_part_data_parallel completes first
C17_ResultIndependentOfCompletionOrder ==
    (part_ret # NoCall /\ ~part_args.fetch.timeout)
    => part_ret = CallPart([part_args EXCEPT !.fetch.supplier_data = C17_OtherOrder(@)])

\* the validated breaks in scan order and the base order quantity before any
\* adjustment to the first break
C18_Breaks == SortByQty(valid_breaks(cost_args.pricing_breaks.items))
C18_Base0 == Max(IntOf(cost_args.qty_needed), Max(1, IntOf(safe_float(cost_args.min_order_qty, Num(1)))))

\* the breaks whose quantity is at most the base order quantity
C18_Qualifying == {i \in 1..Len(C18_Breaks) : C18_Breaks[i].qty <= C18_Base0}

\* the base choice as described: the highest qualifying break at the base
\* order quantity, else the lowest break at its own quantity with the MOQ note
C18_BaseChoice ==
    IF C18_Qualifying # {}
    THEN [best_total_cost |-> C18_Breaks[MaxOf(C18_Qualifying)].price * C18_Base0,
          best_unit_price |-> C18_Breaks[MaxOf(C18_Qualifying)].price,
          actual_order_qty |-> C18_Base0, notes |-> <<>>]
    ELSE [best_total_cost |-> C18_Breaks[1].price * C18_Breaks[1].qty,
          best_unit_price |-> C18_Breaks[1].price,
          actual_order_qty |-> C18_Breaks[1].qty,
          notes |-> <<Note("MOQ adjusted to first break", C18_Breaks[1].qty)>>]

\* C18: whenever get_optimal_cost returns an order quantity larger than the
\* base order quantity, the returned total cost is at most the base total cost
\* (base unit price x base order quantity) increased by buy_up_threshold_pct
\* percent, also after several successive buy-up replacements
C18_BuyUpWithinThresholdOfBase ==
    (/\ cost_calls > 0 /\ CostComputed(cost_ret)
     /\ cost_ret.actual_order_qty.v > C18_BaseChoice.actual_order_qty * Den)
    => cost_ret.total_cost.v * 100 * Den
         <= C18_BaseChoice.best_total_cost * (100 * Den + cost_args.buy_up_threshold_pct.v)

\* the base choice made with break i at order quantity q
C19_ChoiceAt(i, q, notes) ==
    [best_total_cost |-> C18_Breaks[i].price * q, best_unit_price |-> C18_Breaks[i].price,
     actual_order_qty |-> q, notes |-> notes]

\* what is returned is what the buy-up scan leaves of the base choice st0:
\* its price, quantity and notes when no replacement fires
C19_ReturnedFrom(st0) ==
    LET st == BuyUpScan(st0, C18_Breaks, 1, st0.actual_order_qty, cost_args.buy_up_threshold_pct)
    IN  /\ cost_ret.unit_price = Frac(st.best_unit_price)
        /\ cost_ret.total_cost = Frac(st.best_total_cost)
        /\ cost_ret.actual_order_qty = Num(st.actual_order_qty)
        /\ cost_ret.notes = st.notes

\* C19: the base price of get_optimal_cost is that of the highest validated
\* break whose quantity is <= the base order quantity; if no break qualifies
\* the lowest break is used, the order quantity is raised to that break's
\* quantity and, when no later buy-up replacement fires, the returned note
\* records the MOQ adjustment
C19_BasePriceSelection ==
    (cost_calls > 0 /\ CostComputed(cost_ret))
    => IF C18_Qualifying # {}
       THEN \E i \in C18_Qualifying :
               /\ \A j \in C18_Qualifying : C18_Breaks[j].qty <= C18_Breaks[i].qty
               /\ C19_ReturnedFrom(C19_ChoiceAt(i, C18_Base0, <<>>))
       ELSE \E i \in 1..Len(C18_Breaks) :
               /\ \A j \in 1..Len(C18_Breaks) : C18_Breaks[i].qty <= C18_Breaks[j].qty
               /\ C19_ReturnedFrom(C19_ChoiceAt(i, C18_Breaks[i].qty,
                      <<Note("MOQ adjusted to first break", C18_Breaks[i].qty)>>))

\* a call in which the second or a later break is the applicable one and a
\* larger break exists
C19_Witness ==
    /\ cost_calls > 0 /\ CostComputed(cost_ret)
    /\ \E i \in C18_Qualifying : i >= 2 /\ C18_Breaks[1].qty < C18_Breaks[i].qty
    /\ C18_Qualifying # 1..Len(C18_Breaks)

\* the rules of the buy-up scan as stated: whether break pb replaces the
\* choice st, and the note of the rule by which it does
C20_Lower(st, pb) ==
    pb.qty * pb.price * 100 * Den < st.best_total_cost * (100 * Den - cost_args.buy_up_threshold_pct.v)

C20_Similar(st, pb) ==
    /\ pb.qty > st.actual_order_qty
    /\ pb.qty * pb.price * 100 * Den <= st.best_total_cost * (100 * Den + cost_args.buy_up_threshold_pct.v)

C20_Replaces(st, pb) ==
    pb.qty >= C18_BaseChoice.actual_order_qty /\ (C20_Lower(st, pb) \/ C20_Similar(st, pb))

C20_ChoiceOf(st, pb) ==
    [best_total_cost |-> pb.qty * pb.price, best_unit_price |-> pb.price, actual_order_qty |-> pb.qty,
     notes |-> <<Note(IF C20_Lower(st, pb) THEN "Price break lower total cost"
                      ELSE "Bought up for similar total cost", pb.qty)>>]

\* the choices before break 1, 2, ... and after the last break
RECURSIVE C20_ChoicesUpTo(_)
C20_ChoicesUpTo(i) ==
    IF i = 0 THEN <<C18_BaseChoice>>
    ELSE LET prev == C20_ChoicesUpTo(i - 1)
         IN  Append(prev, IF C20_Replaces(prev[i], C18_Breaks[i])
                          THEN C20_ChoiceOf(prev[i], C18_Breaks[i]) ELSE prev[i])

C20_Choices == C20_ChoicesUpTo(Len(C18_Breaks))

\* the breaks that replaced the choice
C20_Replacing == {i \in 1..Len(C18_Breaks) : C20_Replaces(C20_Choices[i], C18_Breaks[i])}

C20_Final ==
    IF C20_Replacing = {} THEN C18_BaseChoice
    ELSE C20_ChoiceOf(C20_Choices[MaxOf(C20_Replacing)], C18_Breaks[MaxOf(C20_Replacing)])

\* C20: scanning the validated breaks in ascending quantity, a break at or
\* above the base order quantity replaces the current choice iff its total is
\* strictly below best-so-far x (1 - pct/100), or its quantity is strictly
\* larger than the chosen quantity and its total is <= best-so-far x
\* (1 + pct/100); the returned unit price, order quantity and note are those
\* of the last break that replaced the choice, or of the base choice if none
\* did, and the note names only the last rule that fired
C20_BuyUpScanResult ==
    (cost_calls > 0 /\ CostComputed(cost_ret))
    => /\ cost_ret.unit_price = Frac(C20_Final.best_unit_price)
       /\ cost_ret.actual_order_qty = Num(C20_Final.actual_order_qty)
       /\ cost_ret.total_cost = Frac(C20_Final.best_total_cost)
       /\ cost_ret.notes = C20_Final.notes

\* a call in which two breaks, one after the other, replaced the choice
C20_Witness ==
    /\ cost_calls > 0 /\ CostComputed(cost_ret)
    /\ \E i, j \in C20_Replacing : i < j

\* the table entries whose lower-cased country name occurs in the lower-cased coo
C21_Matching(coo) ==
    {i \in 1..Len(GEO_RISK_TIERS) : Contains(StrLower(coo), StrLower(GEO_RISK_TIERS[i].country))}

\* C21: the geographic factor of calculate_risk_score is the score of the
\* first entry of GEO_RISK_TIERS, in declaration order, whose country name is
\* a case-insensitive substring of the COO string, so a COO naming two table
\* countries gets the earlier entry's score, and it is the default 4 when no
\* entry matches, for the empty and the "Unknown" COO as well
C21_GeographicFirstMatch ==
    (risk_ret # NoCall /\ ~risk_ret.raised)
    => /\ C21_Matching(risk_args.coo) # {}
            => risk_ret.risk_factors.Geographic = GEO_RISK_TIERS[MinOf(C21_Matching(risk_args.coo))].score
       /\ C21_Matching(risk_args.coo) = {} => risk_ret.risk_factors.Geographic = 4
       /\ risk_args.coo \in {<<>>, <<"U", "n", "k", "n", "o", "w", "n">>} => risk_ret.risk_factors.Geographic = 4

\* a call whose COO names two table countries with different scores
C21_Witness ==
    /\ risk_ret # NoCall /\ ~risk_ret.raised
    /\ \E i, j \in C21_Matching(risk_args.coo) : GEO_RISK_TIERS[i].score # GEO_RISK_TIERS[j].score

\* the consolidated lifecycle as described, from the flags of the options
C22_Lifecycle(all_options) ==
    IF \E i \in 1..Len(all_options) : all_options[i].eol THEN EOL_NOTE
    ELSE IF \E i \in 1..Len(all_options) : all_options[i].discontinued THEN DISC_NOTE
    ELSE <<>>

C22_Status(all_options) ==
    IF C22_Lifecycle(all_options) = EOL_NOTE THEN "EOL"
    ELSE IF C22_Lifecycle(all_options) = DISC_NOTE THEN "Discontinued"
    ELSE "Active"

\* C22: the consolidated lifecycle of analyze_single_part does not depend on
\* the order of the options: it is "EOL" if any option has the end-of-life
\* flag, otherwise "DISC" if any option has the discontinued flag, otherwise
\* empty; and Status is "EOL", "Discontinued" or "Active" accordingly
C22_LifecycleIndependentOfOrder ==
    (/\ part_ret # NoCall /\ ~part_args.fetch.timeout
     /\ part_args.fetch.supplier_data # <<>> /\ ~part_ret.raised)
    => /\ LifecycleNotes(part_ret._options, Len(part_ret._options)) = C22_Lifecycle(part_ret._options)
       /\ part_ret.Status = C22_Status(part_ret._options)
       /\ part_ret.RiskFactors.Lifecycle = (IF C22_Lifecycle(part_ret._options) = <<>> THEN 0 ELSE 10)
       /\ part_ret.Status = CallPart([part_args EXCEPT !.fetch.supplier_data = C17_OtherOrder(@)]).Status

\* a part whose first option is flagged end-of-life and whose second option
\* is flagged discontinued only
C22_Witness ==
    /\ part_ret # NoCall /\ ~part_args.fetch.timeout /\ ~part_ret.raised
    /\ Len(part_ret._options) = 2
    /\ part_ret._options[1].eol
    /\ part_ret._options[2].discontinued /\ ~part_ret._options[2].eol
    /\ part_ret.Status = "EOL"

\* the fastest option analyze_single_part computes for the returned options
C23_Fastest == FastestOption(part_ret._options, part_ret.QtyNeed)

C23_InStock == {i \in 1..Len(part_ret._options) : part_ret._options[i].stock >= part_ret.QtyNeed}
C23_WithLead == {i \in 1..Len(part_ret._options) : part_ret._options[i].lead_time.k = "num"}

\* C23: the fastest option of analyze_single_part, whose lead time feeds the
\* risk score: if any option has stock >= the quantity needed it is the one of
\* those with minimum total cost, also when some in-stock option has an
\* undefined (NaN) cost; otherwise it is the option with the minimum defined
\* lead time; it is undefined only when no option is in stock and none has a
\* defined lead time
C23_FastestOption ==
    (/\ part_ret # NoCall /\ ~part_args.fetch.timeout
     /\ part_args.fetch.supplier_data # <<>> /\ ~part_ret.raised)
    => /\ C23_InStock # {}
            => /\ \E i \in C23_InStock : C23_Fastest = part_ret._options[i]
               /\ \A i \in C23_InStock :
                     part_ret._options[i].cost.k = "num"
                     => /\ C23_Fastest.cost.k = "num"
                        /\ C23_Fastest.cost.v <= part_ret._options[i].cost.v
       /\ (C23_InStock = {} /\ C23_WithLead # {})
            => /\ \E i \in C23_WithLead : C23_Fastest = part_ret._options[i]
               /\ \A i \in C23_WithLead : C23_Fastest.lead_time.v <= part_ret._options[i].lead_time.v
       /\ (C23_Fastest = NoOption) <=> (C23_InStock = {} /\ C23_WithLead = {})

\* the processed parts, and those of them that are the last of their part
\* number, whose choices the parts maps hold
C24_Processed == {i \in 1..Len(strat_args.part_results) : ~C7_Invalid(strat_args.part_results[i])}

C24_Held ==
    {i \in C24_Processed :
        \A j \in C24_Processed : strat_args.part_results[j].PartNumber = strat_args.part_results[i].PartNumber => j <= i}

\* the options of part i with a defined finite cost, and those of them in stock
C24_Valid(i) ==
    {k \in 1..Len(strat_args.part_results[i]._options) : strat_args.part_results[i]._options[k].cost.k = "num"}

C24_InStock(i) ==
    {k \in C24_Valid(i) : strat_args.part_results[i]._options[k].stock >= strat_args.part_results[i].QtyNeed}

C24_ChosenFor(s, i) == strat_ret[s].parts[strat_args.part_results[i].PartNumber]

\* o is an in-stock option of part i of minimum cost among its in-stock valid
\* options, or the Strict choice when the part has none
C24_Selected(o, strict, i) ==
    IF C24_InStock(i) # {}
    THEN /\ \E k \in C24_InStock(i) : o = strat_args.part_results[i]._options[k]
         /\ \A k \in C24_InStock(i) : o.cost.v <= strat_args.part_results[i]._options[k].cost.v
    ELSE o = strict

\* C24: Lowest Cost (In Stock): for every processed part, if at least one
\* valid option has stock >= the quantity needed, the chosen option has stock
\* >= the quantity needed and the minimum cost among such options; otherwise
\* the chosen option is exactly the Lowest Cost (Strict) choice for that part
C24_InStockSelection ==
    strat_ret # NoCall
    => /\ \A i \in C24_Held : C24_Selected(C24_ChosenFor(IN_STOCK, i), C24_ChosenFor(STRICT, i), i)
       /\ \A i \in C24_Processed :
             C24_Selected(InStockChoice(valid_opts(strat_args.part_results[i]._options),
                                        strat_args.part_results[i].QtyNeed,
                                        MinCost(valid_opts(strat_args.part_results[i]._options))),
                          MinCost(valid_opts(strat_args.part_results[i]._options)), i)

\* a part whose cheapest valid option is not in stock while a dearer one is
C24_Witness ==
    /\ strat_ret # NoCall
    /\ \E i \in C24_Held :
          /\ C24_InStock(i) # {}
          /\ C24_ChosenFor(IN_STOCK, i).cost.v > C24_ChosenFor(STRICT, i).cost.v

\* the effective lead time as described: 0 if in stock, else the option's
\* lead time, infinite if that is undefined
C25_EffectiveLead(o, qty_needed) ==
    IF o.stock >= qty_needed THEN Num(0)
    ELSE IF o.lead_time.k = "num" THEN o.lead_time ELSE Inf

\* (effective lead time, cost) of a is at most that of b, lexicographically
C25_PairAtMost(a, b, qty_needed) ==
    LET la == C25_EffectiveLead(a, qty_needed)
        lb == C25_EffectiveLead(b, qty_needed)
    IN  \/ la.k = "num" /\ lb.k = "inf"
        \/ la.k = "num" /\ lb.k = "num" /\ la.v < lb.v
        \/ la = lb /\ a.cost.v <= b.cost.v

\* o is a valid option of part i that minimises the pair over its valid options
C25_Selected(o, i) ==
    /\ \E k \in C24_Valid(i) : o = strat_args.part_results[i]._options[k]
    /\ \A k \in C24_Valid(i) :
          /\ C25_PairAtMost(o, strat_args.part_results[i]._options[k], strat_args.part_results[i].QtyNeed)
          /\ ~FloatLess(C25_EffectiveLead(strat_args.part_results[i]._options[k], strat_args.part_results[i].QtyNeed),
                        C25_EffectiveLead(o, strat_args.part_results[i].QtyNeed))

\* C25: Fastest Lead Time: for every processed part the chosen option
\* minimises the pair (effective lead time, total cost) lexicographically over
\* the part's valid options, the effective lead time being 0 if stock >= the
\* quantity needed, else the option's lead time, infinite if undefined; hence
\* no valid option of the part has a strictly smaller effective lead time
C25_FastestSelection ==
    strat_ret # NoCall
    => /\ \A i \in C24_Held : C25_Selected(C24_ChosenFor(FASTEST, i), i)
       /\ \A i \in C24_Processed :
             C25_Selected(Fastest(valid_opts(strat_args.part_results[i]._options),
                                  strat_args.part_results[i].QtyNeed), i)

\* a part whose fastest choice is dearer than its cheapest valid option
C25_Witness ==
    /\ strat_ret # NoCall
    /\ \E i \in C24_Held : C24_ChosenFor(FASTEST, i).cost.v > C24_ChosenFor(STRICT, i).cost.v

\* the option k of part i, and its effective lead time
C26_Option(i, k) == strat_args.part_results[i]._options[k]
C26_Lead(i, k) == C25_EffectiveLead(C26_Option(i, k), strat_args.part_results[i].QtyNeed)

\* the cost of the Strict choice of part i
C26_Baseline(i) == MinOf({C26_Option(i, k).cost.v : k \in C24_Valid(i)})

\* the pool of part i: the valid options within the target lead time and
\* within the premium over the Strict cost, taken as 0 when that cost is 0
C26_Pool(i) ==
    {k \in C24_Valid(i) :
        /\ C26_Lead(i, k).k = "num"
        /\ C26_Lead(i, k).v <= strat_args.config.target_lead_time_days * Den
        /\ \/ C26_Baseline(i) <= 0
           \/ (C26_Option(i, k).cost.v - C26_Baseline(i)) * 100
                <= strat_args.config.max_premium * C26_Baseline(i)}

C26_Costs(i) == {C26_Option(i, k).cost.v : k \in C26_Pool(i)}
C26_Leads(i) == {C26_Lead(i, k).v : k \in C26_Pool(i)}

\* the score of option k within the pool of part i, times 100 and times the
\* two ranges, which is the same positive factor for every member
C26_Score(i, k) ==
    strat_args.config.cost_weight * (C26_Option(i, k).cost.v - MinOf(C26_Costs(i))) * Rng(C26_Leads(i))
    + strat_args.config.lead_time_weight * (C26_Lead(i, k).v - MinOf(C26_Leads(i))) * Rng(C26_Costs(i))
    + (IF C26_Option(i, k).eol \/ C26_Option(i, k).discontinued
       THEN 50 * Rng(C26_Costs(i)) * Rng(C26_Leads(i)) ELSE 0)
    + (IF C26_Option(i, k).stock < strat_args.part_results[i].QtyNeed
       THEN 10 * Rng(C26_Costs(i)) * Rng(C26_Leads(i)) ELSE 0)

\* o is the earliest member of the pool of part i of minimum score
C26_Selected(o, i) ==
    \E k \in C26_Pool(i) :
        /\ o = C26_Option(i, k)
        /\ \A m \in C26_Pool(i) : C26_Score(i, k) <= C26_Score(i, m)
        /\ \A m \in C26_Pool(i) : m < k => C26_Score(i, k) < C26_Score(i, m)

\* C26: Optimized (Cost+LT) with a non-empty pool: whenever some valid option
\* of a part has effective lead time <= target_lead_time_days and a cost
\* premium over the Strict choice <= max_premium percent (0 when the Strict
\* cost is ~0), the chosen option satisfies both constraints and has the
\* minimum score (cost_weight x normalised cost + lead_weight x normalised
\* lead, +0.5 if EOL or discontinued, +0.1 if under-stocked) among the pool
\* members, the earliest pool member winning ties
C26_OptimizedSelection ==
    strat_ret # NoCall
    => \A i \in C24_Held : C26_Pool(i) # {} => C26_Selected(C24_ChosenFor(OPTIMIZED, i), i)

\* C27: whenever get_optimal_cost returns a defined total cost, the total is
\* the returned unit price times the returned order quantity, the unit price
\* is the price of one of the validated breaks, and the order quantity is the
\* base order quantity or the quantity of a validated break
C27_CostConsistency ==
    (cost_calls > 0 /\ CostComputed(cost_ret))
    => /\ cost_ret.total_cost.v * Den = cost_ret.unit_price.v * cost_ret.actual_order_qty.v
       /\ \E i \in 1..Len(C18_Breaks) : cost_ret.unit_price = Frac(C18_Breaks[i].price)
       /\ \/ cost_ret.actual_order_qty = Num(C18_Base0)
          \/ \E i \in 1..Len(C18_Breaks) : cost_ret.actual_order_qty = Num(C18_Breaks[i].qty)

\* a call whose order is raised above the base order quantity to the first
\* break, at a non-zero price
C27_RaisedToFirstBreak ==
    /\ cost_calls > 0 /\ CostComputed(cost_ret)
    /\ C18_Qualifying = {}
    /\ cost_ret.total_cost.v > 0
    /\ cost_ret.actual_order_qty.v > C18_Base0 * Den

\* C28: Lowest Cost (Strict) is the cost lower bound: its total_cost is at
\* most the total_cost of each of the other three strategies, and for every
\* part its choice costs at most the option chosen for that part by any other
\* strategy
C28_StrictIsCostLowerBound ==
    strat_ret # NoCall
    => \A s \in StrategyNames \ {STRICT} :
          /\ strat_ret[STRICT].total_cost.k = "num" /\ strat_ret[s].total_cost.k = "num"
          /\ strat_ret[STRICT].total_cost.v <= strat_ret[s].total_cost.v
          /\ \A i \in C24_Held : C24_ChosenFor(STRICT, i).cost.v <= C24_ChosenFor(s, i).cost.v

\* a list of two processed parts for which every other strategy pays more in
\* total than Strict, one of them choosing the Strict option for one part
C28_Witness ==
    /\ strat_ret # NoCall
    /\ Cardinality(C24_Held) >= 2
    /\ \A s \in StrategyNames \ {STRICT} : strat_ret[STRICT].total_cost.v < strat_ret[s].total_cost.v
    /\ \E s \in StrategyNames \ {STRICT}, i \in C24_Held : C24_ChosenFor(STRICT, i) = C24_ChosenFor(s, i)

\* C29: after calculate_strategies the parts maps of the four strategies have
\* the same keys, the part numbers of the parts with _valid true and at least
\* one option of defined finite cost, and every option they hold is one of
\* that part's own options with a defined finite cost
C29_UniformCoverage ==
    strat_ret # NoCall
    => \A s \in StrategyNames :
          /\ DOMAIN strat_ret[s].parts = {strat_args.part_results[i].PartNumber : i \in C24_Processed}
          /\ \A i \in C24_Held :
                \E k \in C24_Valid(i) : C24_ChosenFor(s, i) = strat_args.part_results[i]._options[k]

\* a list of two part results of different part numbers, one covered by the
\* four maps and one skipped although _valid, for want of a priced option
C29_Witness ==
    /\ strat_ret # NoCall
    /\ Len(strat_args.part_results) = 2
    /\ strat_args.part_results[1].PartNumber # strat_args.part_results[2].PartNumber
    /\ Cardinality(C24_Processed) = 1
    /\ \E i \in 1..2 : i \notin C24_Processed /\ strat_args.part_results[i]._valid
                        /\ strat_args.part_results[i]._options # <<>>
    /\ \A s \in StrategyNames : Cardinality(DOMAIN strat_ret[s].parts) = 1

\* the search_nexar tasks, those inside the function, and those that have
\* left the token handling of lines 279-295
C30_Nexar == {id \in DOMAIN nexar_tasks : id[2] = "Nexar"}
C30_Inside == {id \in C30_Nexar : nexar_tasks[id].pc \notin {"submitted", "done"}}
C30_PastToken == {id \in C30_Nexar : nexar_tasks[id].pc \in {"search", "done"}}

\* the task's token request was answered with a token
C30_Successful(t) == t.requested /\ t.td.status = "ok" /\ t.td.access_token

\* the task's token request failed or was answered without a token: the task
\* returned None without reaching the search
C30_Failed(t) == t.requested /\ t.pc = "done" /\ "expires_at" \notin t.wrote

\* C30: in one analysis run search_nexar requests a token only when the cache
\* holds no token or the cached expiry is at most 60 seconds in the future; a
\* successful request stores token and expiry together; a failed or
\* token-less request leaves the cache unchanged and returns no data; and no
\* two tasks are inside search_nexar, reading or writing the cache, at once
C30_TokenCacheProtocol ==
    nexar_run # NoCall
    => /\ \A id \in C30_Nexar :
             nexar_tasks[id].requested
             => \/ ~nexar_tasks[id].cache0.access_token.set
                \/ /\ nexar_tasks[id].cache0.expires_at.set
                   /\ nexar_tasks[id].cache0.expires_at.val <= nexar_tasks[id].now + ExpiryMargin
       /\ \A id \in C30_PastToken :
             /\ C30_Successful(nexar_tasks[id])
                => /\ nexar_tasks[id].wrote = {"access_token", "expires_at"}
                   /\ nexar_token_cache.access_token = nexar_tasks[id].token
                   /\ nexar_token_cache.expires_at.set
             /\ C30_Failed(nexar_tasks[id])
                => /\ nexar_tasks[id].wrote = {}
                   /\ nexar_token_cache = nexar_tasks[id].cache0
                   /\ nexar_tasks[id].result = "none"
       /\ Cardinality(C30_Inside) <= 1

====
